---- MODULE Spec2Model ----
(***************************************************************************)
(* MirrorPool: the reflection engines of src/lib/reflection-engine.js.     *)
(*                                                                         *)
(* The file holds two engines.  Lines 1-473: the SQLite engine (tables     *)
(* reflections and connections).  Lines 474-829: the in-memory engine      *)
(* (Maps reflections and connections, array timeline).                     *)
(*                                                                         *)
(* A text is a sequence of one-character strings, so that toLowerCase,     *)
(* split(/\s+/), String.includes and SQL LIKE are computed character by    *)
(* character.  A real number is kept as an exact fraction.                 *)
(***************************************************************************)
EXTENDS Integers, Sequences, FiniteSets, TLC

(***************************************************************************)
(* Bounds of the model.                                                    *)
(***************************************************************************)
MaxThoughts == 2
MaxConnects == 2
MaxClock == 1
MaxDistance == 3
MaxEdges == 3

(***************************************************************************)
(* Texts.                                                                  *)
(***************************************************************************)
SP == " "

ToLowerChar(c) == IF c = "I" THEN "i" ELSE c

\* String.prototype.toLowerCase
ToLower(s) == [i \in 1..Len(s) |-> ToLowerChar(s[i])]

tEmpty == << >>
tGrow == <<"g","r","o","w">>
tGrowing == <<"g","r","o","w","i","n","g">>
tWantGrow == <<"I"," ","w","a","n","t"," ","t","o"," ","g","r","o","w">>
tWantChange == <<"I"," ","w","a","n","t"," ","t","o"," ","c","h","a","n","g","e">>
tBlank == <<"_","_","_","_">>

\* the value of a missing argument (JavaScript undefined)
Undefined == <<"undefined">>

Texts == {tEmpty, tGrow, tGrowing, tWantGrow, tWantChange, tBlank}

Depths == {"surface", "deep", "abyss"}

\* s.split(/\s+/): the pieces between maximal runs of whitespace; a leading
\* or trailing run leaves an empty piece, and "" splits into [""].
RECURSIVE SplitFrom(_, _, _)
SplitFrom(s, i, cur) ==
  IF i > Len(s) THEN <<cur>>
  ELSE IF s[i] = SP
       THEN IF i > 1 /\ s[i-1] = SP
            THEN SplitFrom(s, i + 1, cur)
            ELSE <<cur>> \o SplitFrom(s, i + 1, << >>)
       ELSE SplitFrom(s, i + 1, Append(cur, s[i]))

Split(s) == SplitFrom(s, 1, << >>)

Range(f) == {f[i] : i \in DOMAIN f}

\* String.prototype.includes(sub)
Includes(s, sub) ==
  \E i \in 0..(Len(s) - Len(sub)) :
    \A j \in 1..Len(sub) : s[i + j] = sub[j]

\* Array.prototype.slice(0, n)
Slice(seq, n) == SubSeq(seq, 1, IF Len(seq) < n THEN Len(seq) ELSE n)

stopWords ==
  { <<"t","h","e">>, <<"a">>, <<"a","n">>, <<"a","n","d">>, <<"o","r">>,
    <<"b","u","t">>, <<"i","n">>, <<"o","n">>, <<"a","t">>, <<"t","o">>,
    <<"f","o","r">> }

ConceptCap == 5
KeywordCap == 10

IsConcept(w) == Len(w) > 3 /\ w \notin stopWords

\* words.filter(w => w.length > 3 && !stopWords.includes(w))
RECURSIVE FilterConcepts(_)
FilterConcepts(words) ==
  IF words = << >> THEN << >>
  ELSE IF IsConcept(Head(words))
       THEN <<Head(words)>> \o FilterConcepts(Tail(words))
       ELSE FilterConcepts(Tail(words))

\* ReflectionEngine.extractConcepts (SQLite engine)
extractConcepts(thought) ==
  Slice(FilterConcepts(Split(ToLower(thought))), ConceptCap)

\* ReflectionEngine.extractKeywords (in-memory engine)
extractKeywords(text) ==
  Slice(FilterConcepts(Split(ToLower(text))), KeywordCap)

(***************************************************************************)
(* Fractions: [num, den] with den > 0.                                     *)
(***************************************************************************)
RECURSIVE GCD(_, _)
GCD(a, b) == IF b = 0 THEN a ELSE GCD(b, a % b)

\* the fraction n/d in lowest terms
Frac(n, d) ==
  LET g == GCD(n, d) IN [num |-> n \div g, den |-> d \div g]

Zero == Frac(0, 1)
One == Frac(1, 1)
FracGT(a, b) == a.num * b.den > b.num * a.den
FracAdd(a, b) == Frac(a.num * b.den + b.num * a.den, a.den * b.den)
FracMul(a, b) == Frac(a.num * b.num, a.den * b.den)
FracMin(a, b) == IF FracGT(a, b) THEN b ELSE a

RECURSIVE FracSum(_)
FracSum(fs) == IF fs = << >> THEN Zero ELSE FracAdd(Head(fs), FracSum(Tail(fs)))

\* Math.sqrt of a perfect square
Sqrt(n) == CHOOSE r \in 0..n : r * r = n

\* calculateSimilaritySql with the size of the first set in place of the
\* size of the union
calculateSimilaritySqlOverFirst(thought1, thought2) ==
  LET words1 == Range(Split(ToLower(thought1)))
      words2 == Range(Split(ToLower(thought2)))
  IN  Frac(Cardinality(words1 \cap words2), Cardinality(words1))

\* ReflectionEngine.calculateSimilarity (SQLite engine): |A \cap B| / |A \cup B|
\* over the sets of split pieces; the union is never empty, since split
\* returns at least one piece.
calculateSimilaritySql(thought1, thought2) ==
  LET words1 == Range(Split(ToLower(thought1)))
      words2 == Range(Split(ToLower(thought2)))
  IN  Frac(Cardinality(words1 \cap words2), Cardinality(words1 \cup words2))

(***************************************************************************)
(* State.                                                                  *)
(*   dbReflections  table reflections of the SQLite engine: row i has      *)
(*                  id i (AUTOINCREMENT, no row is ever deleted)           *)
(*   dbConnections  table connections of the SQLite engine                 *)
(*   reflections    Map reflections of the in-memory engine, as the list   *)
(*                  of its values in insertion order (a Map iterates in    *)
(*                  insertion order; the key of a value is its id)         *)
(*   connections    Map connections of the in-memory engine: id -> ids     *)
(*   timeline       array timeline of the in-memory engine                 *)
(*   clock          the time, in the unit of CURRENT_TIMESTAMP             *)
(*   last           the last call and what it returned or threw            *)
(*   patterns       Map patterns of PatternDetector, as the list of its    *)
(*                  values in insertion order, each with its key           *)
(*   patternThreshold  field patternThreshold of PatternDetector           *)
(*   constructed    the server has its engines (MirrorPoolServer           *)
(*                  .initialize has constructed them)                      *)
(*   initialized    MirrorPoolServer.initialize has returned: the engine   *)
(*                  has opened its store                                   *)
(*   running        the server process has not exited                      *)
(*   synthesisMoments  array synthesisMoments of ConsciousnessTracker      *)
(*   resonanceField    Map resonanceField of ConsciousnessTracker: a       *)
(*                  function from source hashes to functions from source   *)
(*                  hashes to numbers                                      *)
(*   states         Map states of ConsciousnessTracker, as the list of     *)
(*                  its values in insertion order                          *)
(*   evolutionPath  array evolutionPath of ConsciousnessTracker            *)
(*   heard          what a listener of the tracker's events found when it  *)
(*                  was last invoked: the event, its payload and the       *)
(*                  tracker's fields at that moment (emit runs listeners   *)
(*                  synchronously)                                         *)
(*   divingHistory  array divingHistory of DepthAnalyzer                   *)
(*   pending        the reflectThought calls of the SQLite engine that     *)
(*                  are followed from one await to the next, in the order  *)
(*                  they began: arguments, position, and what the call     *)
(*                  holds in its local variables                           *)
(***************************************************************************)
VARIABLES dbReflections, dbConnections, reflections, connections, timeline,
          clock, last, patterns, patternThreshold, constructed, initialized,
          running, synthesisMoments, resonanceField, states, evolutionPath,
          heard, divingHistory, pending

vars == <<dbReflections, dbConnections, reflections, connections, timeline,
          clock, last, patterns, patternThreshold, constructed, initialized,
          running, synthesisMoments, resonanceField, states, evolutionPath,
          heard, divingHistory, pending>>

dbVars == <<dbReflections, dbConnections>>
memVars == <<reflections, connections, timeline>>
detVars == <<patterns, patternThreshold>>
srvVars == <<constructed, initialized, running>>
trkVars == <<synthesisMoments, resonanceField, states, evolutionPath, heard>>

\* what no call of a ReflectionEngine method that runs to its end writes
notEngine == <<detVars, srvVars, trkVars, divingHistory, pending>>
\* what no method of PatternDetector writes
notDetector == <<dbVars, memVars, srvVars, trkVars, divingHistory, pending>>

Returned(op, args, value) ==
  [op |-> op, args |-> args, status |-> "ok", error |-> "", value |-> value]

Threw(op, args, error) ==
  [op |-> op, args |-> args, status |-> "error", error |-> error,
   value |-> << >>]

NoCall == Returned("none", << >>, << >>)

Max(S) == IF S = {} THEN 0 ELSE CHOOSE x \in S : \A y \in S : y <= x

\* the times a call that starts now can read from the clock
Now == {t \in clock..(clock + 1) : t <= MaxClock}

(***************************************************************************)
(* SQL: x LIKE pattern.  % matches any run of characters, _ any one        *)
(* character, and letters match without regard to case.                    *)
(***************************************************************************)
RECURSIVE LikeFrom(_, _, _, _)
LikeFrom(p, i, t, j) ==
  IF i > Len(p) THEN j > Len(t)
  ELSE IF p[i] = "%"
       THEN \E k \in j..(Len(t) + 1) : LikeFrom(p, i + 1, t, k)
       ELSE /\ j <= Len(t)
            /\ (p[i] = "_" \/ ToLowerChar(p[i]) = ToLowerChar(t[j]))
            /\ LikeFrom(p, i + 1, t, j + 1)

Like(t, p) == LikeFrom(p, 1, t, 1)

\* `%${w}%`
Wrap(w) == <<"%">> \o w \o <<"%">>

\* words.map(w => `%${w}%`).join(' ')
RECURSIVE JoinWrapped(_)
JoinWrapped(words) ==
  IF Len(words) = 1 THEN Wrap(words[1])
  ELSE Wrap(words[1]) \o <<SP>> \o JoinWrapped(Tail(words))

searchPattern(thought) == JoinWrapped(Split(ToLower(thought)))

(***************************************************************************)
(* The SQLite engine.                                                      *)
(***************************************************************************)
DbIds == 1..Len(dbReflections)

ReflectionLimit == 10

\* the orders in which a query may return the rows S under
\* ORDER BY created_at DESC: rows of equal created_at come in any order
NewestFirst(rows, S) ==
  {o \in [1..Cardinality(S) -> S] :
     /\ \A i, j \in DOMAIN o : i # j => o[i] # o[j]
     /\ \A i, j \in DOMAIN o :
          i < j => rows[o[i]].created_at >= rows[o[j]].created_at}

\* ReflectionEngine.findReflections: the possible results of the query
\* (ids, in the order returned), run on the table rows
findReflections(rows, thought) ==
  LET maxId == Len(rows)
      hits == {id \in 1..Len(rows) :
                 Like(rows[id].thought, searchPattern(thought)) /\ id # maxId}
  IN  {Slice(o, ReflectionLimit) : o \in NewestFirst(rows, hits)}

\* the row of one reflection in the result of findReflections
Reflected(rows, thought, id) ==
  [id |-> id, similarity |-> calculateSimilaritySql(thought, rows[id].thought)]

\* ReflectionEngine.trackEvolution, its query: evolution_stage of the row
\* returned for one concept, 0 when there is none
ancestorStage(rows, concept, thoughtId) ==
  Max({rows[id].evolution_stage :
         id \in {i \in 1..Len(rows) :
                   Like(rows[i].thought, Wrap(concept)) /\ i < thoughtId}})

\* the concepts for which the query returns a row
ancestorConcepts(rows, thought, thoughtId) ==
  LET concepts == extractConcepts(thought)
  IN  {k \in DOMAIN concepts :
         \E i \in 1..Len(rows) :
            Like(rows[i].thought, Wrap(concepts[k])) /\ i < thoughtId}

\* newStage without the step beyond the greatest stage of the ancestors
newStageOfAncestors(rows, thought, thoughtId) ==
  LET concepts == extractConcepts(thought)
  IN  Max({ancestorStage(rows, concepts[k], thoughtId) :
             k \in ancestorConcepts(rows, thought, thoughtId)} \cup {0})

\* Math.max(...ancestors.map(a => a.evolution_stage || 0), 0) + 1
newStage(rows, thought, thoughtId) ==
  LET concepts == extractConcepts(thought)
  IN  Max({ancestorStage(rows, concepts[k], thoughtId) :
             k \in ancestorConcepts(rows, thought, thoughtId)} \cup {0}) + 1

\* UpdateStage keyed on the text in place of the id: every row that holds
\* the text of the new thought gets the new stage
UpdateStageByText(rows, stage, thoughtId) ==
  [i \in 1..Len(rows) |->
     IF rows[i].thought = rows[thoughtId].thought
     THEN [rows[i] EXCEPT !.evolution_stage = stage]
     ELSE rows[i]]

\* UPDATE reflections SET evolution_stage = ? WHERE id = ?
UpdateStage(rows, stage, thoughtId) ==
  [i \in 1..Len(rows) |->
     IF i = thoughtId THEN [rows[i] EXCEPT !.evolution_stage = stage]
     ELSE rows[i]]

\* ReflectionEngine.trackEvolution: the table after it
trackEvolution(rows, thought, thoughtId) ==
  UpdateStage(rows, newStage(rows, thought, thoughtId), thoughtId)

\* ReflectionEngine.createConnection: the table after it.  The foreign keys
\* of the schema are not enforced (the engine never turns foreign_keys on),
\* and the table has no unique key besides its own id.
createConnection(conns, sourceId, targetId, type, strength, now) ==
  Append(conns, [source_id |-> sourceId, target_id |-> targetId,
                 connection_type |-> type, strength |-> strength,
                 discovered_at |-> now])

\* for (const reflection of reflections) await this.createConnection(...)
RECURSIVE createConnections(_, _, _, _, _)
createConnections(conns, thoughtId, refl, k, now) ==
  IF k > Len(refl) THEN conns
  ELSE createConnections(
         createConnection(conns, thoughtId, refl[k].id, "reflection",
                          refl[k].similarity, now),
         thoughtId, refl, k + 1, now)

\* INSERT INTO reflections (thought, depth_level) VALUES (?, ?)
InsertReflection(rows, thought, depth, now) ==
  Append(rows, [thought |-> thought, depth_level |-> depth,
                created_at |-> now, evolution_stage |-> 1])

\* ReflectionEngine.reflectThought (SQLite engine)
ReflectThoughtSql(thought, depth, includeEvolution) ==
  /\ Len(dbReflections) < MaxThoughts
  /\ \E now \in Now :
       /\ clock' = now
       /\ IF thought = Undefined
          THEN \* thought TEXT NOT NULL: the INSERT fails
               /\ UNCHANGED dbVars
               /\ last' = Threw("reflectThought", <<thought, depth>>,
                                "SQLITE_CONSTRAINT")
          ELSE LET inserted == InsertReflection(dbReflections, thought, depth, now)
                   thoughtId == Len(inserted)
               IN  \E found \in findReflections(inserted, thought) :
                     LET refl == [k \in DOMAIN found |->
                                    Reflected(inserted, thought, found[k])]
                         stage == newStage(inserted, thought, thoughtId)
                     IN  /\ dbReflections' =
                              IF includeEvolution
                              THEN trackEvolution(inserted, thought, thoughtId)
                              ELSE inserted
                         /\ dbConnections' =
                              createConnections(dbConnections, thoughtId,
                                                refl, 1, now)
                         /\ last' = Returned("reflectThought",
                              <<thought, depth>>,
                              [thoughtId |-> thoughtId,
                               deep_reflections |-> refl,
                               tracked |-> includeEvolution,
                               stage |-> IF includeEvolution THEN stage ELSE 0,
                               growth_detected |->
                                 includeEvolution /\ stage > 1])
  /\ UNCHANGED memVars
  /\ UNCHANGED notEngine

\* a direct call of ReflectionEngine.createConnection
CreateConnection(sourceId, targetId, type, strength) ==
  /\ Len(dbConnections) < MaxConnects
  /\ \E now \in Now :
       /\ clock' = now
       /\ dbConnections' = createConnection(dbConnections, sourceId, targetId,
                                            type, strength, now)
  /\ last' = Returned("createConnection", <<sourceId, targetId, type>>, << >>)
  /\ UNCHANGED <<dbReflections, memVars>>
  /\ UNCHANGED notEngine

\* ReflectionEngine.findInfluencedThoughts: its statement joins reflections
\* r1 and r2 and names the column thought without a table, once per concept:
\* SQLite refuses to prepare it ("ambiguous column name: thought"), and with
\* no concept the condition is "AND ()", a syntax error.  Either way the
\* call throws before any row is read.
findInfluencedThoughts(thought) ==
  IF extractConcepts(thought) = << >>
  THEN [status |-> "error", error |-> "SQLITE_ERROR: syntax error"]
  ELSE [status |-> "error", error |-> "SQLITE_ERROR: ambiguous column name"]

EmptyRipplesSql ==
  [ripple_count |-> 0, max_distance_reached |-> 0, ripples |-> << >>,
   total_influence |-> Zero]

\* ReflectionEngine.traceRipples (SQLite engine).  The loop runs while the
\* queue is not empty and ripples.length < distance * 10; its first pass
\* takes the origin at level 0 and, unless level >= distance, awaits
\* findInfluencedThoughts, whose error ends the call.
traceRipplesSql(originThought, distance) ==
  IF ~(0 < distance * 10) \/ 0 >= distance
  THEN Returned("traceRipples", <<originThought, distance>>, EmptyRipplesSql)
  ELSE Threw("traceRipples", <<originThought, distance>>,
             findInfluencedThoughts(originThought).error)

TraceRipplesSql(originThought, distance) ==
  /\ last' = traceRipplesSql(originThought, distance)
  /\ UNCHANGED <<dbVars, memVars, clock>>
  /\ UNCHANGED notEngine

(***************************************************************************)
(* The in-memory engine.                                                   *)
(***************************************************************************)
\* ReflectionEngine.generateHash: the first 16 hex digits of SHA-256, taken
\* to be free of collisions: a function of the text, one id per text
generateHash(text) == <<"sha256">> \o text

\* calculateSimilarityMem without the square roots
calculateSimilarityMemNoSqrt(text1, text2) ==
  LET words1 == Range(Split(ToLower(text1)))
      words2 == Range(Split(ToLower(text2)))
      dotProduct == Cardinality(words1 \cap words2)
      magnitude1 == Cardinality(words1)
      magnitude2 == Cardinality(words2)
  IN  IF magnitude1 # 0 /\ magnitude2 # 0
      THEN Frac(dotProduct, magnitude1 * magnitude2)
      ELSE Zero

\* ReflectionEngine.calculateSimilarity (in-memory engine): the cosine of
\* the 0/1 vectors of the two texts over their distinct words
calculateSimilarityMem(text1, text2) ==
  LET words1 == Range(Split(ToLower(text1)))
      words2 == Range(Split(ToLower(text2)))
      dotProduct == Cardinality(words1 \cap words2)
      magnitude1 == Sqrt(Cardinality(words1))
      magnitude2 == Sqrt(Cardinality(words2))
  IN  IF magnitude1 # 0 /\ magnitude2 # 0
      THEN Frac(dotProduct, magnitude1 * magnitude2)
      ELSE Zero

\* ReflectionEngine.keywordOverlap
keywordOverlap(keywords1, keywords2) ==
  LET set1 == Range(keywords1)
      set2 == Range(keywords2)
  IN  IF Cardinality(set1 \cup set2) > 0
      THEN Frac(Cardinality(set1 \cap set2), Cardinality(set1 \cup set2))
      ELSE Zero

echoThreshold == Frac(3, 10)
keywordThreshold == Frac(4, 10)

\* (similarity * 0.6) + (keywordMatch * 0.4)
Score(e) ==
  FracAdd(FracMul(e.similarity, Frac(6, 10)), FracMul(e.keywordMatch, Frac(4, 10)))

\* Array.prototype.sort by descending score; the sort is stable
RECURSIVE InsertByScore(_, _)
InsertByScore(sorted, e) ==
  IF sorted = << >> THEN <<e>>
  ELSE IF FracGT(Score(e), Score(Head(sorted)))
       THEN <<e>> \o sorted
       ELSE <<Head(sorted)>> \o InsertByScore(Tail(sorted), e)

RECURSIVE SortByScore(_)
SortByScore(es) ==
  IF es = << >> THEN << >>
  ELSE InsertByScore(SortByScore(SubSeq(es, 1, Len(es) - 1)), es[Len(es)])

\* limits[depth] || 7
EchoLimit(depth) ==
  CASE depth = "surface" -> 3
    [] depth = "deep" -> 7
    [] depth = "abyss" -> 15
    [] OTHER -> 7

\* the echo of one stored reflection; a stored reflection has no field
\* keywords, so its keywords are [] (reflection.keywords || [])
Echo(thought, r) ==
  [id |-> r.id,
   similarity |-> calculateSimilarityMem(thought, r.original),
   keywordMatch |-> keywordOverlap(extractKeywords(thought), << >>),
   resonance |-> r.resonance]

IsEcho(e) ==
  FracGT(e.similarity, echoThreshold) \/ FracGT(e.keywordMatch, keywordThreshold)

RECURSIVE EchoesOf(_, _)
EchoesOf(thought, refls) ==
  IF refls = << >> THEN << >>
  ELSE LET e == Echo(thought, Head(refls))
       IN  (IF IsEcho(e) THEN <<e>> ELSE << >>) \o EchoesOf(thought, Tail(refls))

\* ReflectionEngine.findEchoes
findEchoes(refls, thought, depth) ==
  Slice(SortByScore(EchoesOf(thought, refls)), EchoLimit(depth))

depthMultiplier(depth) ==
  CASE depth = "surface" -> Frac(1, 2)
    [] depth = "deep" -> One
    [] depth = "abyss" -> Frac(3, 2)
    [] OTHER -> One

\* ReflectionEngine.calculateResonance
calculateResonance(echoes, depth) ==
  IF Len(echoes) = 0 THEN Zero
  ELSE LET avgSimilarity ==
             FracMul(FracSum([k \in DOMAIN echoes |-> echoes[k].similarity]),
                     Frac(1, Len(echoes)))
           connectionBonus == FracMin(Frac(Len(echoes), 10), Frac(1, 2))
       IN  FracMin(FracMul(FracAdd(avgSimilarity, connectionBonus),
                           depthMultiplier(depth)), One)

MemIds == {reflections[k].id : k \in DOMAIN reflections}

\* Map.prototype.get on the Map reflections
GetReflection(refls, id) ==
  CHOOSE r \in Range(refls) : r.id = id

\* Map.prototype.set on the Map reflections: the value of a key that is
\* already there is replaced where it stands, a new key is added at the end
SetReflection(refls, r) ==
  IF \E k \in DOMAIN refls : refls[k].id = r.id
  THEN [k \in DOMAIN refls |-> IF refls[k].id = r.id THEN r ELSE refls[k]]
  ELSE Append(refls, r)

\* reflectThought (in-memory engine) that also files the ids of its mirrors
\* under the id of the thought in the Map connections
ReflectThoughtMemLinking(thought, depth, includeEvolution) ==
  /\ Len(timeline) < MaxThoughts
  /\ \E now \in Now :
       /\ clock' = now
       /\ IF thought = Undefined
          THEN /\ UNCHANGED memVars
               /\ last' = Threw("reflectThought", <<thought, depth>>, "TypeError")
          ELSE LET thoughtHash == generateHash(thought)
                   echoes == findEchoes(reflections, thought, depth)
                   reflection ==
                     [id |-> thoughtHash, original |-> thought, depth |-> depth,
                      timestamp |-> now, mirrors |-> echoes,
                      resonance |-> calculateResonance(echoes, depth),
                      evolution |-> IF includeEvolution THEN "[]" ELSE "null"]
               IN  /\ reflections' = SetReflection(reflections, reflection)
                   /\ timeline' = Append(timeline,
                        [timestamp |-> now, id |-> thoughtHash,
                         type |-> "reflection"])
                   /\ connections' =
                        [id \in DOMAIN connections \cup {thoughtHash} |->
                           IF id = thoughtHash
                           THEN [k \in DOMAIN echoes |-> echoes[k].id]
                           ELSE connections[id]]
                   /\ last' = Returned("reflectThought", <<thought, depth>>,
                                       reflection)
  /\ UNCHANGED dbVars
  /\ UNCHANGED notEngine

\* ReflectionEngine.reflectThought (in-memory engine)
ReflectThoughtMem(thought, depth, includeEvolution) ==
  /\ Len(timeline) < MaxThoughts
  /\ \E now \in Now :
       /\ clock' = now
       /\ IF thought = Undefined
          THEN \* createHash(...).update(undefined) throws
               /\ UNCHANGED memVars
               /\ last' = Threw("reflectThought", <<thought, depth>>, "TypeError")
          ELSE LET thoughtHash == generateHash(thought)
                   echoes == findEchoes(reflections, thought, depth)
                   reflection ==
                     [id |-> thoughtHash, original |-> thought, depth |-> depth,
                      timestamp |-> now, mirrors |-> echoes,
                      resonance |-> calculateResonance(echoes, depth),
                      evolution |-> IF includeEvolution THEN "[]" ELSE "null"]
               IN  /\ reflections' = SetReflection(reflections, reflection)
                   /\ timeline' = Append(timeline,
                        [timestamp |-> now, id |-> thoughtHash,
                         type |-> "reflection"])
                   /\ UNCHANGED connections
                   /\ last' = Returned("reflectThought", <<thought, depth>>,
                                       reflection)
  /\ UNCHANGED dbVars
  /\ UNCHANGED notEngine

\* this.connections.get(thoughtId) || []
Connected(conns, thoughtId) ==
  IF thoughtId \in DOMAIN conns THEN conns[thoughtId] ELSE << >>

\* the ids read by the two inner loops of one wave, in the order read
RECURSIVE Candidates(_, _)
Candidates(conns, currentWave) ==
  IF currentWave = << >> THEN << >>
  ELSE Connected(conns, Head(currentWave)) \o Candidates(conns, Tail(currentWave))

\* NextWave without visited.add: a candidate is only compared with the ids
\* visited by the earlier waves
RECURSIVE NextWaveNoAdd(_, _)
NextWaveNoAdd(cands, visited) ==
  IF cands = << >> THEN << >>
  ELSE IF Head(cands) \in visited
       THEN NextWaveNoAdd(Tail(cands), visited)
       ELSE <<Head(cands)>> \o NextWaveNoAdd(Tail(cands), visited)

\* nextWave: the candidates not yet visited, each added to visited as it is met
RECURSIVE NextWave(_, _)
NextWave(cands, visited) ==
  IF cands = << >> THEN << >>
  ELSE IF Head(cands) \in visited
       THEN NextWave(Tail(cands), visited)
       ELSE <<Head(cands)>> \o NextWave(Tail(cands), visited \cup {Head(cands)})

\* WaveThoughts without the decay: the resonance of an entry is the
\* resonance of its reflection, whatever the distance
RECURSIVE WaveThoughtsNoDecay(_, _, _)
WaveThoughtsNoDecay(refls, nextWave, strength) ==
  IF nextWave = << >> THEN << >>
  ELSE LET connectedId == Head(nextWave)
           rest == WaveThoughtsNoDecay(refls, Tail(nextWave), strength)
       IN  IF \E r \in Range(refls) : r.id = connectedId
           THEN LET reflection == GetReflection(refls, connectedId)
                IN  <<[id |-> connectedId, thought |-> reflection.original,
                       resonance |-> reflection.resonance]>>
                    \o rest
           ELSE rest

\* waveData.thoughts: one entry per id of nextWave that has a reflection
RECURSIVE WaveThoughts(_, _, _)
WaveThoughts(refls, nextWave, strength) ==
  IF nextWave = << >> THEN << >>
  ELSE LET connectedId == Head(nextWave)
           rest == WaveThoughts(refls, Tail(nextWave), strength)
       IN  IF \E r \in Range(refls) : r.id = connectedId
           THEN LET reflection == GetReflection(refls, connectedId)
                IN  <<[id |-> connectedId, thought |-> reflection.original,
                       resonance |-> FracMul(reflection.resonance, strength)]>>
                    \o rest
           ELSE rest

\* the loop of traceRipples from one distance on
RECURSIVE RippleLoop(_, _, _, _, _, _, _)
RippleLoop(conns, refls, distance, rippleDistance, currentWave, visited, ripples) ==
  IF ~(distance <= rippleDistance /\ Len(currentWave) > 0) THEN ripples
  ELSE LET nextWave == NextWave(Candidates(conns, currentWave), visited)
           strength == Frac(1, distance)
           thoughts == WaveThoughts(refls, nextWave, strength)
           waveData == [distance |-> distance, thoughts |-> thoughts,
                        strength |-> strength]
           impact == FracSum([k \in DOMAIN thoughts |-> thoughts[k].resonance])
           after ==
             IF Len(thoughts) > 0
             THEN [ripples EXCEPT
                     !.waves = Append(@, waveData),
                     !.totalImpact = FracAdd(@, impact),
                     !.affectedThoughts =
                        @ \o [k \in DOMAIN thoughts |-> thoughts[k].thought]]
             ELSE ripples
       IN  RippleLoop(conns, refls, distance + 1, rippleDistance, nextWave,
                      visited \cup Range(nextWave), after)

\* ReflectionEngine.traceRipples (in-memory engine)
traceRipplesMem(conns, refls, originThought, rippleDistance) ==
  LET originHash == generateHash(originThought)
  IN  RippleLoop(conns, refls, 1, rippleDistance, <<originHash>>, {originHash},
                 [origin |-> originThought, waves |-> << >>,
                  totalImpact |-> Zero, affectedThoughts |-> << >>])

TraceRipplesMem(originThought, rippleDistance) ==
  /\ last' = Returned("traceRipples", <<originThought, rippleDistance>>,
                      traceRipplesMem(connections, reflections, originThought,
                                      rippleDistance))
  /\ UNCHANGED <<dbVars, memVars, clock>>
  /\ UNCHANGED notEngine

\* The trackers after construction (ConsciousnessTracker and DepthAnalyzer
\* constructors): empty collections, and no listener has been invoked.
NothingHeard == [event |-> "none"]

TrackersConstructed ==
  /\ synthesisMoments = << >>
  /\ resonanceField = << >>
  /\ states = << >>
  /\ evolutionPath = << >>
  /\ heard = NothingHeard
  /\ divingHistory = << >>

(***************************************************************************)
(* Specifications.                                                         *)
(***************************************************************************)
Inputs == Texts \cup {Undefined}
Distances == 0..MaxDistance
ConnectionTypes == {"reflection", "influence"}
Strengths == {Frac(1, 2), One}

Init ==
  /\ dbReflections = << >>
  /\ dbConnections = << >>
  /\ reflections = << >>
  /\ connections = << >>
  /\ timeline = << >>
  /\ clock = 0
  /\ patterns = << >>
  /\ patternThreshold = Frac(3, 10)
  /\ constructed = FALSE
  /\ initialized = FALSE
  /\ running = TRUE
  /\ TrackersConstructed
  /\ pending = << >>
  /\ last = NoCall

\* The SQLite engine behind the server: reflect_thought and ripple_effects,
\* one call after the other.  The server passes depth "deep" by default.
NextSql ==
  \/ \E thought \in Inputs, includeEvolution \in BOOLEAN :
       ReflectThoughtSql(thought, "deep", includeEvolution)
  \/ \E originThought \in Texts, distance \in {0, MaxDistance} :
       TraceRipplesSql(originThought, distance)

SpecSql == Init /\ [][NextSql]_vars

\* The SQLite engine with direct calls of createConnection.
NextConnect ==
  \/ \E thought \in {tGrow, tWantGrow} :
       ReflectThoughtSql(thought, "deep", TRUE)
  \/ \E sourceId, targetId \in 1..(Len(dbReflections) + 1),
        type \in ConnectionTypes, strength \in Strengths :
       CreateConnection(sourceId, targetId, type, strength)

SpecConnect == Init /\ [][NextConnect]_vars

\* The in-memory engine, one call after the other.
NextMem ==
  \/ \E thought \in Inputs, depth \in Depths, includeEvolution \in BOOLEAN :
       ReflectThoughtMem(thought, depth, includeEvolution)
  \/ \E originThought \in Texts, distance \in Distances :
       TraceRipplesMem(originThought, distance)

SpecMem == Init /\ [][NextMem]_vars

\* traceRipples of the in-memory engine as a function of the two Maps it
\* reads.  No method of the engine writes the Map connections, so the Maps
\* are drawn here: connections from the lists of at most MaxEdges edges over
\* the ids of RippleTexts (an edge a -> b appends b to the array of a), and
\* reflections with a record for every id or for all but the last.
RippleTexts == <<tGrow, tGrowing, tWantGrow>>
RippleIds == {generateHash(RippleTexts[k]) : k \in DOMAIN RippleTexts}

RippleResonance(k) == Frac(k, Len(RippleTexts))

RippleReflection(k) ==
  [id |-> generateHash(RippleTexts[k]), original |-> RippleTexts[k],
   depth |-> "deep", timestamp |-> 0, mirrors |-> << >>,
   resonance |-> RippleResonance(k), evolution |-> "[]"]

EdgeLists ==
  UNION {[1..n -> RippleIds \X RippleIds] : n \in 0..MaxEdges}

RECURSIVE GraphOf(_)
GraphOf(edges) ==
  IF edges = << >> THEN << >>
  ELSE LET g == GraphOf(SubSeq(edges, 1, Len(edges) - 1))
           e == edges[Len(edges)]
       IN  IF e[1] \in DOMAIN g
           THEN [g EXCEPT ![e[1]] = Append(@, e[2])]
           ELSE [x \in DOMAIN g \cup {e[1]} |->
                   IF x = e[1] THEN <<e[2]>> ELSE g[x]]

InitRipple ==
  /\ dbReflections = << >>
  /\ dbConnections = << >>
  /\ \E n \in {Len(RippleTexts) - 1, Len(RippleTexts)} :
       reflections = [k \in 1..n |-> RippleReflection(k)]
  /\ \E edges \in EdgeLists : connections = GraphOf(edges)
  /\ timeline = << >>
  /\ clock = 0
  /\ patterns = << >>
  /\ patternThreshold = Frac(3, 10)
  /\ constructed = FALSE
  /\ initialized = FALSE
  /\ running = TRUE
  /\ TrackersConstructed
  /\ pending = << >>
  /\ last = NoCall

NextRipple ==
  \E originThought \in Range(RippleTexts) \cup {tBlank}, distance \in Distances :
    TraceRipplesMem(originThought, distance)

SpecRipple == InitRipple /\ [][NextRipple]_vars

Spec == SpecSql

(***************************************************************************)
(* Claims.                                                                 *)
(***************************************************************************)
IsCall(op) == last.op = op
Ok == last.status = "ok"

\* C1: the stage of a stored thought is write-once: no call (reflectThought
\* with the same or another text, traceRipples) changes the evolution_stage
\* of a row that is already in the table, and no row goes away.
C1_StageWriteOnce ==
  [][\A id \in 1..Len(dbReflections) :
       /\ id <= Len(dbReflections')
       /\ dbReflections'[id].evolution_stage = dbReflections[id].evolution_stage]_vars

\* C1, its case: the same text was ingested twice; the second ingest got
\* stage 2 and the first still has the stage 1 it got.
C1_Witness ==
  \E i, j \in DbIds :
     /\ i < j
     /\ dbReflections[i].thought = dbReflections[j].thought
     /\ dbReflections[i].evolution_stage = 1
     /\ dbReflections[j].evolution_stage = 2
     /\ IsCall("reflectThought") /\ Ok /\ last.value.thoughtId = j

\* the thoughts created before thoughtId whose text contains, without regard
\* to case, one of the keywords of thought
ContainingAncestors(thought, thoughtId) ==
  LET keywords == extractConcepts(thought)
  IN  {a \in DbIds :
         /\ a < thoughtId
         /\ \E k \in DOMAIN keywords :
              Includes(ToLower(dbReflections[a].thought), keywords[k])}

\* C2: after an ingest with evolution tracking, the stage of the new thought
\* (returned and stored) is 1 + the greatest stage of the earlier thoughts
\* whose text contains one of its keywords, 1 when there is none, and
\* growth_detected is returned true exactly when that stage is above 1.
C2_StageIsOnePlusMaxAncestor ==
  (IsCall("reflectThought") /\ Ok /\ last.value.tracked) =>
    LET id == last.value.thoughtId
        expected ==
          1 + Max({dbReflections[a].evolution_stage :
                     a \in ContainingAncestors(last.args[1], id)})
    IN  /\ last.value.stage = expected
        /\ dbReflections[id].evolution_stage = expected
        /\ last.value.growth_detected = (expected > 1)

\* the ids reported by a result of the in-memory traceRipples, wave by wave
RECURSIVE ReportedIds(_)
ReportedIds(waves) ==
  IF waves = << >> THEN << >>
  ELSE [k \in DOMAIN Head(waves).thoughts |-> Head(waves).thoughts[k].id]
       \o ReportedIds(Tail(waves))

NoDuplicates(seq) == \A i, j \in DOMAIN seq : i # j => seq[i] # seq[j]

\* C3: whatever the connection graph (cycles, self-loops and repeated edges
\* included) and the distance asked for, traceRipples reports no node twice
\* and never the origin, returns at most maxDistance waves, and every wave
\* has a distance in 1..maxDistance, each distance at most once.
C3_RipplesBounded ==
  IsCall("traceRipples") =>
    LET waves == last.value.waves
        maxDistance == last.args[2]
        reported == ReportedIds(waves)
    IN  /\ NoDuplicates(reported)
        /\ generateHash(last.args[1]) \notin Range(reported)
        /\ Len(waves) <= maxDistance
        /\ \A k \in DOMAIN waves : waves[k].distance \in 1..maxDistance
        /\ \A k, l \in DOMAIN waves : k < l => waves[k].distance < waves[l].distance

\* C3, its case: a traversal of two or more waves over a graph in which a
\* reported node has an edge back to the origin.
C3_Witness ==
  /\ IsCall("traceRipples")
  /\ Len(last.value.waves) >= 2
  /\ \E id \in Range(ReportedIds(last.value.waves)) :
       generateHash(last.args[1]) \in Range(Connected(connections, id))

\* the thoughts of the SQLite corpus whose text is the given text
Stored(text) == {id \in DbIds : dbReflections[id].thought = text}

HasOutgoingEdge(id) ==
  \E k \in DOMAIN dbConnections : dbConnections[k].source_id = id

EmptyResultSql ==
  /\ Ok
  /\ last.value.ripples = << >>
  /\ last.value.total_influence = Zero

\* C4: traceRipples on an origin that is stored and has no outgoing edge
\* returns no ripple and a total of 0.
C4_LeafOriginGivesNoWaves ==
  (/\ IsCall("traceRipples")
   /\ Stored(last.args[1]) # {}
   /\ \A id \in Stored(last.args[1]) : ~HasOutgoingEdge(id))
  => EmptyResultSql

\* C5: traceRipples on an origin text that no stored thought has returns the
\* empty result and raises no error.  (The call changes no table: see
\* TraceRipplesSql.)
C5_UnknownOriginGivesEmptyResult ==
  (IsCall("traceRipples") /\ Stored(last.args[1]) = {}) => EmptyResultSql

\* the ids within d hops of origin in the Map connections
RECURSIVE ReachWithin(_, _)
ReachWithin(origin, d) ==
  IF d = 0 THEN {origin}
  ELSE LET R == ReachWithin(origin, d - 1)
       IN  R \cup UNION {Range(Connected(connections, x)) : x \in R}

FirstReachedAt(origin, id, d) ==
  d >= 1 /\ id \in ReachWithin(origin, d) /\ id \notin ReachWithin(origin, d - 1)

RECURSIVE ReportedResonances(_)
ReportedResonances(waves) ==
  IF waves = << >> THEN << >>
  ELSE [k \in DOMAIN Head(waves).thoughts |-> Head(waves).thoughts[k].resonance]
       \o ReportedResonances(Tail(waves))

\* C6: in a result of traceRipples, the entries of wave d are the thoughts
\* first reached at distance d, each with resonance = (the resonance of its
\* reflection) * (1/d), every thought first reached within the distance
\* asked for is in its wave, and totalImpact is the sum of the resonances of
\* all the entries of all the waves.
C6_DecayedResonanceAndTotal ==
  IsCall("traceRipples") =>
    LET origin == generateHash(last.args[1])
        waves == last.value.waves
    IN  /\ \A w \in DOMAIN waves : \A k \in DOMAIN waves[w].thoughts :
             LET e == waves[w].thoughts[k]
             IN  /\ e.id \in MemIds
                 /\ FirstReachedAt(origin, e.id, waves[w].distance)
                 /\ e.resonance =
                      FracMul(GetReflection(reflections, e.id).resonance,
                              Frac(1, waves[w].distance))
        /\ \A id \in MemIds : \A d \in 1..last.args[2] :
             FirstReachedAt(origin, id, d) =>
               \E w \in DOMAIN waves :
                  /\ waves[w].distance = d
                  /\ \E k \in DOMAIN waves[w].thoughts : waves[w].thoughts[k].id = id
        /\ last.value.totalImpact = FracSum(ReportedResonances(waves))

\* C6, its case: a result with entries at distance 1 and at distance 2, the
\* latter with half the resonance of its reflection.
C6_Witness ==
  /\ IsCall("traceRipples")
  /\ Len(last.value.waves) >= 2
  /\ last.value.waves[1].distance = 1
  /\ last.value.waves[2].distance = 2
  /\ \E k \in DOMAIN last.value.waves[2].thoughts :
       LET e == last.value.waves[2].thoughts[k]
       IN  /\ e.resonance # GetReflection(reflections, e.id).resonance
           /\ FracGT(last.value.totalImpact, e.resonance)

MeetsThreshold(textT, textC) ==
  \/ FracGT(calculateSimilaritySql(textT, textC), echoThreshold)
  \/ FracGT(keywordOverlap(extractConcepts(textT), extractConcepts(textC)),
            keywordThreshold)

HasEdge(sourceId, targetId, type) ==
  \E k \in DOMAIN dbConnections :
     /\ dbConnections[k].source_id = sourceId
     /\ dbConnections[k].target_id = targetId
     /\ dbConnections[k].connection_type = type

\* C7: after the ingest of a thought T, there is an edge T -> C of type
\* "reflection" for exactly the prior thoughts C (within the window of the
\* ReflectionLimit most recent) whose similarity with T is above 0.3 or
\* whose keyword overlap with T is above 0.4.
C7_ReflectionEdgeIffThreshold ==
  (IsCall("reflectThought") /\ Ok) =>
    LET T == last.value.thoughtId
    IN  \A C \in 1..(T - 1) :
          (T - C <= ReflectionLimit) =>
            (MeetsThreshold(dbReflections[T].thought, dbReflections[C].thought)
               <=> HasEdge(T, C, "reflection"))

\* C8: the table holds at most one edge per (source, target, type).
C8_OneEdgePerKey ==
  \A i, j \in DOMAIN dbConnections :
     (/\ dbConnections[i].source_id = dbConnections[j].source_id
      /\ dbConnections[i].target_id = dbConnections[j].target_id
      /\ dbConnections[i].connection_type = dbConnections[j].connection_type)
     => i = j

\* C9: connect with a source or a target that is no stored thought fails
\* and adds no edge.
C9_UnknownIdRejected ==
  (IsCall("createConnection")
     /\ (last.args[1] \notin DbIds \/ last.args[2] \notin DbIds))
  => /\ last.status = "error"
     /\ ~HasEdge(last.args[1], last.args[2], last.args[3])

\* C10: ingest with an empty or a missing text fails, and no thought with an
\* empty text is ever stored.
C10_EmptyTextRejected ==
  /\ (IsCall("reflectThought") /\ last.args[1] \in {tEmpty, Undefined})
       => last.status = "error"
  /\ \A id \in DbIds : dbReflections[id].thought # tEmpty

(***************************************************************************)
(* Ingestion in which a step after the first write fails.                  *)
(***************************************************************************)
\* the awaited steps of reflectThought (SQLite engine) that follow the INSERT
FailSteps == {"findReflections", "trackEvolution", "createConnection"}

\* ReflectionEngine.reflectThought (SQLite engine), a call in which the
\* statement of one awaited step rejects (the database is busy or the disk
\* is full; findReflections also throws on a thought that is not a string).
\* The method opens no transaction and catches nothing: the rejection leaves
\* the method with every statement before it already applied.
ReflectThoughtSqlFails(thought, depth, includeEvolution, step) ==
  /\ Len(dbReflections) < MaxThoughts
  /\ thought # Undefined
  /\ \E now \in Now :
       /\ clock' = now
       /\ LET inserted == InsertReflection(dbReflections, thought, depth, now)
              thoughtId == Len(inserted)
          IN  \E found \in findReflections(inserted, thought) :
                LET refl == [k \in DOMAIN found |->
                               Reflected(inserted, thought, found[k])]
                IN  CASE step = "findReflections" ->
                           /\ dbReflections' = inserted
                           /\ UNCHANGED dbConnections
                      [] step = "trackEvolution" ->
                           /\ includeEvolution
                           /\ dbReflections' = inserted
                           /\ UNCHANGED dbConnections
                      [] step = "createConnection" ->
                           \E k \in DOMAIN refl :
                             /\ dbReflections' =
                                  IF includeEvolution
                                  THEN trackEvolution(inserted, thought, thoughtId)
                                  ELSE inserted
                             /\ dbConnections' =
                                  createConnections(dbConnections, thoughtId,
                                    SubSeq(refl, 1, k - 1), 1, now)
  /\ last' = Threw("reflectThought", <<thought, depth>>, "SQLITE_BUSY")
  /\ UNCHANGED memVars
  /\ UNCHANGED notEngine

\* ReflectionEngine.reflectThought (in-memory engine), a call in which
\* saveReflection rejects (writeFile fails): the Map and the timeline were
\* written before the file
ReflectThoughtMemFails(thought, depth, includeEvolution) ==
  /\ Len(timeline) < MaxThoughts
  /\ thought # Undefined
  /\ \E now \in Now :
       /\ clock' = now
       /\ LET thoughtHash == generateHash(thought)
              echoes == findEchoes(reflections, thought, depth)
              reflection ==
                [id |-> thoughtHash, original |-> thought, depth |-> depth,
                 timestamp |-> now, mirrors |-> echoes,
                 resonance |-> calculateResonance(echoes, depth),
                 evolution |-> IF includeEvolution THEN "[]" ELSE "null"]
          IN  /\ reflections' = SetReflection(reflections, reflection)
              /\ timeline' = Append(timeline,
                   [timestamp |-> now, id |-> thoughtHash,
                    type |-> "reflection"])
              /\ UNCHANGED connections
  /\ last' = Threw("reflectThought", <<thought, depth>>, "EIO")
  /\ UNCHANGED dbVars
  /\ UNCHANGED notEngine

IngestTexts == {tGrow, tWantGrow}

\* reflect_thought on either engine, each call running to its end or
\* stopping at a failing step
NextIngest ==
  \/ \E thought \in IngestTexts \cup {Undefined}, includeEvolution \in BOOLEAN :
       ReflectThoughtSql(thought, "deep", includeEvolution)
  \/ \E thought \in IngestTexts, includeEvolution \in BOOLEAN, step \in FailSteps :
       ReflectThoughtSqlFails(thought, "deep", includeEvolution, step)
  \/ \E thought \in IngestTexts \cup {Undefined}, includeEvolution \in BOOLEAN :
       ReflectThoughtMem(thought, "deep", includeEvolution)
  \/ \E thought \in IngestTexts, includeEvolution \in BOOLEAN :
       ReflectThoughtMemFails(thought, "deep", includeEvolution)

SpecIngest == Init /\ [][NextIngest]_vars

\* C11: ingestion is all-or-nothing: a reflectThought call that ends in an
\* error leaves the stored thoughts, stages and edges of both engines as
\* they were before the call
C11_FailedIngestLeavesCorpus ==
  [][(last'.op = "reflectThought" /\ last'.status = "error")
       => (dbVars' = dbVars /\ memVars' = memVars)]_vars

(***************************************************************************)
(* The similarity functions, each called on a pair of texts.               *)
(***************************************************************************)
\* PatternDetector.calculateSimilarity: |A \cap B| / |A \cup B| over the sets
\* of split pieces
calculateSimilarityPattern(text1, text2) ==
  LET words1 == Range(Split(ToLower(text1)))
      words2 == Range(Split(ToLower(text2)))
      intersection == {x \in words1 : x \in words2}
      union == words1 \cup words2
  IN  Frac(Cardinality(intersection), Cardinality(union))

tSpaces == <<" ", " ">>
tGrowGrow == <<"g","r","o","w"," ","g","r","o","w">>

SimTexts == Texts \cup {tSpaces, tGrowGrow}

CalculateSimilaritySql(thought1, thought2) ==
  /\ last' = Returned("calculateSimilaritySql", <<thought1, thought2>>,
                      calculateSimilaritySql(thought1, thought2))
  /\ UNCHANGED <<dbVars, memVars, clock>>
  /\ UNCHANGED notEngine

CalculateSimilarityMem(text1, text2) ==
  /\ last' = Returned("calculateSimilarityMem", <<text1, text2>>,
                      calculateSimilarityMem(text1, text2))
  /\ UNCHANGED <<dbVars, memVars, clock>>
  /\ UNCHANGED notEngine

CalculateSimilarityPattern(text1, text2) ==
  /\ last' = Returned("calculateSimilarityPattern", <<text1, text2>>,
                      calculateSimilarityPattern(text1, text2))
  /\ UNCHANGED <<dbVars, memVars, clock>>
  /\ UNCHANGED notEngine

NextSimilarity ==
  \/ \E thought1, thought2 \in SimTexts : CalculateSimilaritySql(thought1, thought2)
  \/ \E text1, text2 \in SimTexts : CalculateSimilarityMem(text1, text2)
  \/ \E text1, text2 \in SimTexts : CalculateSimilarityPattern(text1, text2)

SpecSimilarity == Init /\ [][NextSimilarity]_vars

IsSimilarityCall ==
  last.op \in {"calculateSimilaritySql", "calculateSimilarityMem",
               "calculateSimilarityPattern"}

\* the similarity of the implementation named op on the pair (a, b)
SimilarityBy(op, a, b) ==
  CASE op = "calculateSimilaritySql" -> calculateSimilaritySql(a, b)
    [] op = "calculateSimilarityMem" -> calculateSimilarityMem(a, b)
    [] op = "calculateSimilarityPattern" -> calculateSimilarityPattern(a, b)

\* C12: similarity is symmetric: what each of the three implementations
\* returns for (a, b) is what it returns for (b, a)
C12_SimilaritySymmetric ==
  IsSimilarityCall =>
    last.value = SimilarityBy(last.op, last.args[2], last.args[1])

\* a call on two different texts that share some but not all words
C12_Witness ==
  /\ IsSimilarityCall
  /\ last.args[1] # last.args[2]
  /\ last.value \notin {Zero, One}

Tokens(text) == Range(Split(ToLower(text))) \ {<< >>}

\* the Jaccard index of two sets, 0 when both are empty
Jaccard(A, B) ==
  IF A \cup B = {} THEN Zero
  ELSE Frac(Cardinality(A \cap B), Cardinality(A \cup B))

InUnitInterval(x) == x.den > 0 /\ 0 <= x.num /\ x.num <= x.den

\* C14: the similarity of both engines is the Jaccard index of the token
\* sets of the two texts, lies in [0,1], and is 0 when neither text has a
\* token
C14_SimilarityIsJaccard ==
  last.op \in {"calculateSimilaritySql", "calculateSimilarityMem"} =>
    /\ last.value = Jaccard(Tokens(last.args[1]), Tokens(last.args[2]))
    /\ InUnitInterval(last.value)
    /\ (Tokens(last.args[1]) \cup Tokens(last.args[2]) = {}
          => last.value = Zero)

(***************************************************************************)
(* PatternDetector: themes and their depth.                                *)
(***************************************************************************)
\* the value NaN of a JavaScript number (0/0)
NaN == [num |-> 0, den |-> 0]
IsNaN(x) == x.den = 0

FracSub(a, b) == Frac(a.num * b.den - b.num * a.den, a.den * b.den)

\* a / b for numbers that are not negative: 0/0 is NaN
FracDiv(a, b) ==
  IF IsNaN(a) \/ IsNaN(b) \/ (a.num = 0 /\ b.num = 0) THEN NaN
  ELSE Frac(a.num * b.den, a.den * b.num)

\* new Date(created_at).getTime(): milliseconds, created_at being in seconds
getTime(created_at) == created_at * 1000

\* the stop words of extractSignificantWords
significantStopWords ==
  {<<"t","h","e">>, <<"a">>, <<"a","n">>, <<"a","n","d">>, <<"o","r">>,
    <<"b","u","t">>, <<"i","n">>, <<"o","n">>, <<"a","t">>, <<"t","o">>,
    <<"f","o","r">>, <<"o","f">>, <<"w","i","t","h">>, <<"b","y">>,
    <<"f","r","o","m">>, <<"u","p">>, <<"a","b","o","u","t">>,
    <<"i","n","t","o">>, <<"t","h","r","o","u","g","h">>,
    <<"d","u","r","i","n","g">>, <<"b","e","f","o","r","e">>,
    <<"a","f","t","e","r">>, <<"a","b","o","v","e">>,
    <<"b","e","l","o","w">>, <<"b","e","t","w","e","e","n">>,
    <<"u","n","d","e","r">>, <<"a","g","a","i","n">>,
    <<"f","u","r","t","h","e","r">>, <<"t","h","e","n">>,
    <<"o","n","c","e">>, <<"i","s">>, <<"a","m">>, <<"a","r","e">>,
    <<"w","a","s">>, <<"w","e","r","e">>, <<"b","e">>, <<"b","e","e","n">>,
    <<"b","e","i","n","g">>, <<"h","a","v","e">>, <<"h","a","s">>,
    <<"h","a","d">>, <<"d","o">>, <<"d","o","e","s">>, <<"d","i","d">>,
    <<"w","i","l","l">>, <<"w","o","u","l","d">>,
    <<"s","h","o","u","l","d">>, <<"c","o","u","l","d">>, <<"m","a","y">>,
    <<"m","i","g","h","t">>, <<"m","u","s","t">>, <<"c","a","n">>,
    <<"t","h","i","s">>, <<"t","h","a","t">>, <<"t","h","e","s","e">>,
    <<"t","h","o","s","e">>, <<"i">>, <<"y","o","u">>, <<"h","e">>,
    <<"s","h","e">>, <<"i","t">>, <<"w","e">>, <<"t","h","e","y">>,
    <<"t","h","e","m">>, <<"t","h","e","i","r">>, <<"w","h","a","t">>,
    <<"w","h","i","c","h">>, <<"w","h","o">>, <<"w","h","e","n">>,
    <<"w","h","e","r","e">>, <<"w","h","y">>, <<"h","o","w">>,
    <<"a","l","l">>, <<"e","a","c","h">>, <<"f","e","w">>,
    <<"m","o","r","e">>, <<"m","o","s","t">>, <<"o","t","h","e","r">>,
    <<"s","o","m","e">>, <<"s","u","c","h">>, <<"n","o">>, <<"n","o","r">>,
    <<"n","o","t">>, <<"o","n","l","y">>, <<"o","w","n">>,
    <<"s","a","m","e">>, <<"s","o">>, <<"t","h","a","n">>, <<"t","o","o">>,
    <<"v","e","r","y">>, <<"s">>, <<"t">>, <<"d">>, <<"l","l">>, <<"m">>,
    <<"v","e">>, <<"r","e">> }

Digits == {"0", "1", "2", "3", "4", "5", "6", "7", "8", "9"}

\* word.length > 3 && !stopWords.has(word), and not word.match(/^\d+$/)
IsSignificant(word) ==
  /\ Len(word) > 3
  /\ word \notin significantStopWords
  /\ ~(\A i \in DOMAIN word : word[i] \in Digits)

RECURSIVE FilterSignificant(_)
FilterSignificant(words) ==
  IF words = << >> THEN << >>
  ELSE IF IsSignificant(Head(words))
       THEN <<Head(words)>> \o FilterSignificant(Tail(words))
       ELSE FilterSignificant(Tail(words))

\* PatternDetector.extractSignificantWords
extractSignificantWords(thought) == FilterSignificant(Split(ToLower(thought)))

\* timestamps.sort((a, b) => a - b)
SortNumbers(ns) ==
  [i \in DOMAIN ns |->
     ns[CHOOSE j \in DOMAIN ns :
          Cardinality({k \in DOMAIN ns :
                         ns[k] < ns[j] \/ (ns[k] = ns[j] /\ k < j)}) = i - 1]]

\* ns.reduce((a, b) => a + b, 0) over ns[lo..hi], summed by halves
RECURSIVE SumNumbers(_, _, _)
SumNumbers(ns, lo, hi) ==
  IF lo > hi THEN 0
  ELSE IF lo = hi THEN ns[lo]
  ELSE LET mid == (lo + hi) \div 2
       IN  SumNumbers(ns, lo, mid) + SumNumbers(ns, mid + 1, hi)

\* the same for fractions
RECURSIVE SumFracs(_, _, _)
SumFracs(fs, lo, hi) ==
  IF lo > hi THEN Zero
  ELSE IF lo = hi THEN fs[lo]
  ELSE LET mid == (lo + hi) \div 2
       IN  FracAdd(SumFracs(fs, lo, mid), SumFracs(fs, mid + 1, hi))

\* PatternDetector.calculateConsistency
calculateConsistency(thoughts) ==
  IF Len(thoughts) < 2 THEN Zero
  ELSE LET timestamps ==
             SortNumbers([i \in DOMAIN thoughts |->
                            getTime(thoughts[i].created_at)])
           gaps == [i \in 1..(Len(timestamps) - 1) |->
                      timestamps[i + 1] - timestamps[i]]
           avgGap == Frac(SumNumbers(gaps, 1, Len(gaps)), Len(gaps))
           squares == [i \in DOMAIN gaps |->
                         LET d == FracSub(Frac(gaps[i], 1), avgGap)
                         IN  FracMul(d, d)]
           variance == FracMul(SumFracs(squares, 1, Len(gaps)), Frac(1, Len(gaps)))
           ratio == FracDiv(variance, avgGap)
       IN  IF IsNaN(ratio) THEN NaN
           ELSE FracDiv(One, FracAdd(One, ratio))

\* PatternDetector.calculateEvolution
calculateEvolution(thoughts) ==
  IF Len(thoughts) < 2 THEN Zero
  ELSE FracSub(One, calculateSimilarityPattern(
                      thoughts[1].thought, thoughts[Len(thoughts)].thought))

\* PatternDetector.calculateThemeDepth:
\* (frequency * 0.3 + consistency * 0.4 + evolution * 0.3) / 10
calculateThemeDepth(theme) ==
  LET frequency == Frac(theme.count, 1)
      consistency == calculateConsistency(theme.thoughts)
      evolution == calculateEvolution(theme.thoughts)
  IN  IF IsNaN(consistency) THEN NaN
      ELSE FracMul(FracAdd(FracAdd(FracMul(frequency, Frac(3, 10)),
                                   FracMul(consistency, Frac(4, 10))),
                           FracMul(evolution, Frac(3, 10))),
                   Frac(1, 10))

\* the places at which the loops of extractThemes meet a word: <<i, j>> for
\* word j of thought i, met in the order of i, then of j
WordPlaces(words) ==
  UNION {{<<i, j>> : j \in DOMAIN words[i]} : i \in DOMAIN words}

Before(p, q) == p[1] < q[1] \/ (p[1] = q[1] /\ p[2] < q[2])

\* the places of S in the order in which they are met
InOrder(S) ==
  [k \in 1..Cardinality(S) |->
     CHOOSE p \in S : Cardinality({q \in S : Before(q, p)}) = k - 1]

\* themeMap after the two forEach loops of extractThemes, as the list of its
\* entries in insertion order: a word enters the Map where it is first met;
\* every place where it is met adds one to count and pushes the thought;
\* depth is set anew after every push, so it ends as calculateThemeDepth of
\* the entry after the last push.
themeMapOf(thoughts) ==
  LET words == [i \in DOMAIN thoughts |->
                  extractSignificantWords(thoughts[i].thought)]
      places == WordPlaces(words)
      WordAt(p) == words[p[1]][p[2]]
      firsts == {p \in places :
                   \A q \in places : WordAt(q) = WordAt(p) => ~Before(q, p)}
      order == InOrder(firsts)
      Entry(p) ==
        LET met == InOrder({q \in places : WordAt(q) = WordAt(p)})
            theme == [count |-> Len(met),
                      thoughts |-> [k \in DOMAIN met |-> thoughts[met[k][1]]]]
        IN  [theme |-> WordAt(p), count |-> theme.count,
             thoughts |-> theme.thoughts,
             depth |-> calculateThemeDepth(theme)]
  IN  [k \in DOMAIN order |-> Entry(order[k])]

\* .sort((a, b) => b.depth - a.depth): the orders the sort may return.  The
\* sort is stable, so themes of equal depth keep their order; a comparison
\* with NaN gives NaN and the order is then up to the implementation.
SortedByDepth(themes) ==
  {o \in [DOMAIN themes -> DOMAIN themes] :
     /\ \A i, j \in DOMAIN o : i # j => o[i] # o[j]
     /\ (\A k \in DOMAIN themes : ~IsNaN(themes[k].depth)) =>
          \A i, j \in DOMAIN o :
            i < j => \/ FracGT(themes[o[i]].depth, themes[o[j]].depth)
                     \/ (themes[o[i]].depth = themes[o[j]].depth /\ o[i] < o[j])}

\* PatternDetector.extractThemes: the results it may return
extractThemes(thoughts) ==
  LET themes == themeMapOf(thoughts)
  IN  {[i \in DOMAIN themes |-> themes[o[i]]] : o \in SortedByDepth(themes)}

\* The corpora on which extractThemes is run: n thoughts, n up to MaxShared,
\* that all hold one text or hold two texts in turn, stored within one
\* second, one second apart, or (up to MaxUneven thoughts) at growing gaps.
MaxShared == 34
MaxUneven == 4

CorpusText(k, texts) ==
  CASE texts = "same" -> tGrowing
    [] texts = "turns" -> IF k % 2 = 1 THEN tWantGrow ELSE tWantChange

CorpusTime(k, spacing) ==
  CASE spacing = "none" -> 0
    [] spacing = "even" -> k
    [] spacing = "uneven" -> k * k

Corpus(n, texts, spacing) ==
  [k \in 1..n |-> [thought |-> CorpusText(k, texts), depth_level |-> "deep",
                   created_at |-> CorpusTime(k, spacing),
                   evolution_stage |-> 1]]

Corpora ==
  {Corpus(n, texts, spacing) :
     n \in 0..MaxShared, texts \in {"same", "turns"},
     spacing \in {"none", "even"}}
  \cup {Corpus(n, texts, "uneven") :
          n \in 0..MaxUneven, texts \in {"same", "turns"}}

InitThemes ==
  /\ dbReflections \in Corpora
  /\ dbConnections = << >>
  /\ reflections = << >>
  /\ connections = << >>
  /\ timeline = << >>
  /\ clock = 0
  /\ patterns = << >>
  /\ patternThreshold = Frac(3, 10)
  /\ constructed = FALSE
  /\ initialized = FALSE
  /\ running = TRUE
  /\ TrackersConstructed
  /\ pending = << >>
  /\ last = NoCall

\* PatternDetector.extractThemes run on the stored thoughts
ExtractThemes ==
  /\ \E themes \in extractThemes(dbReflections) :
       last' = Returned("extractThemes", << >>, themes)
  /\ UNCHANGED <<dbVars, memVars, clock>>
  /\ UNCHANGED notEngine

NextThemes == ExtractThemes

SpecThemes == InitThemes /\ [][NextThemes]_vars

\* C15: every theme that extractThemes returns has a depth in [0,1]
C15_ThemeDepthInUnitInterval ==
  IsCall("extractThemes") =>
    \A k \in DOMAIN last.value : InUnitInterval(last.value[k].depth)

(***************************************************************************)
(* PatternDetector (in-memory): cross-currents.                            *)
(***************************************************************************)
wStillness == <<"s","t","i","l","l","n","e","s","s">>
wMovement == <<"m","o","v","e","m","e","n","t">>
wCertainty == <<"c","e","r","t","a","i","n","t","y">>
wDoubt == <<"d","o","u","b","t">>
wConnection == <<"c","o","n","n","e","c","t","i","o","n">>
wSolitude == <<"s","o","l","i","t","u","d","e">>
wCreation == <<"c","r","e","a","t","i","o","n">>
wDestruction == <<"d","e","s","t","r","u","c","t","i","o","n">>
wDisconnection == <<"d","i","s","c","o","n","n","e","c","t","i","o","n">>

\* findCrossCurrents: polarities
polarities ==
  << <<wStillness, wMovement>>, <<wCertainty, wDoubt>>,
     <<wConnection, wSolitude>>, <<wCreation, wDestruction>> >>

\* themes.find(t => t.name.includes(pole)): the index of the first such
\* theme, 0 when there is none
FindTheme(themes, pole) ==
  LET hits == {k \in DOMAIN themes : Includes(themes[k].name, pole)}
  IN  IF hits = {} THEN 0 ELSE CHOOSE k \in hits : \A h \in hits : k <= h

FracMax(a, b) == IF FracGT(a, b) THEN a ELSE b

\* Math.abs(a - b)
FracAbsDiff(a, b) == IF FracGT(a, b) THEN FracSub(a, b) ELSE FracSub(b, a)

\* the body of polarities.forEach: what one pair adds to crossCurrents
CrossCurrent(themes, pair) ==
  LET i == FindTheme(themes, pair[1])
      j == FindTheme(themes, pair[2])
  IN  IF i # 0 /\ j # 0
      THEN << [themes |-> <<themes[i].name, themes[j].name>>,
               tension |-> FracAbsDiff(themes[i].strength, themes[j].strength),
               balance |-> FracDiv(
                 FracMin(themes[i].strength, themes[j].strength),
                 FracMax(themes[i].strength, themes[j].strength))] >>
      ELSE << >>

RECURSIVE CrossCurrentsFrom(_, _)
CrossCurrentsFrom(themes, k) ==
  IF k > Len(polarities) THEN << >>
  ELSE CrossCurrent(themes, polarities[k]) \o CrossCurrentsFrom(themes, k + 1)

\* PatternDetector.findCrossCurrents
findCrossCurrents(themes) == CrossCurrentsFrom(themes, 1)

\* The theme lists on which findCrossCurrents is run: up to MaxThemes themes
\* of different names (the names are the keys of a Map).
MaxThemes == 2
CrossNames == {wConnection, wSolitude, wDisconnection, wStillness, wMovement}
CrossStrengths == {Zero, Frac(1, 2), One}

ThemeLists ==
  {ts \in UNION {[1..n -> [name : CrossNames, strength : CrossStrengths]] :
                   n \in 0..MaxThemes} :
     \A i, j \in DOMAIN ts : i # j => ts[i].name # ts[j].name}

FindCrossCurrents(themes) ==
  /\ last' = Returned("findCrossCurrents", <<themes>>,
                      findCrossCurrents(themes))
  /\ UNCHANGED <<dbVars, memVars, clock>>
  /\ UNCHANGED notEngine

NextCross == \E themes \in ThemeLists : FindCrossCurrents(themes)

SpecCross == Init /\ [][NextCross]_vars

\* the entry of one pair of the lexicon when both its poles are names of
\* themes, nothing otherwise
PairEntry(themes, pair) ==
  LET names == {themes[k].name : k \in DOMAIN themes}
      StrengthOf(name) ==
        themes[CHOOSE k \in DOMAIN themes : themes[k].name = name].strength
  IN  IF pair[1] \in names /\ pair[2] \in names
      THEN << [themes |-> <<pair[1], pair[2]>>,
               tension |-> FracAbsDiff(StrengthOf(pair[1]), StrengthOf(pair[2])),
               balance |-> FracDiv(
                 FracMin(StrengthOf(pair[1]), StrengthOf(pair[2])),
                 FracMax(StrengthOf(pair[1]), StrengthOf(pair[2])))] >>
      ELSE << >>

\* C16: findCrossCurrents returns, in the order of the lexicon, one entry
\* for every pair whose two poles are both names of given themes, with
\* tension |sA - sB| and balance min/max, and nothing for any other pair
C16_CrossCurrentsOnlyForPresentPairs ==
  IsCall("findCrossCurrents") =>
    last.value = PairEntry(last.args[1], polarities[1])
                 \o PairEntry(last.args[1], polarities[2])
                 \o PairEntry(last.args[1], polarities[3])
                 \o PairEntry(last.args[1], polarities[4])

(***************************************************************************)
(* PatternDetector (in-memory): discoverPatterns and findUndercurrents.    *)
(* A Date is its time value, in seconds (the source counts milliseconds;   *)
(* the month in milliseconds does not fit the integers of the checker),    *)
(* or the Invalid Date, which compares false with every date.              *)
(***************************************************************************)
Date(t) == [valid |-> TRUE, time |-> t]
InvalidDate == [valid |-> FALSE, time |-> 0]

\* a >= b on two Dates: false when either is the Invalid Date (NaN)
DateGE(a, b) == a.valid /\ b.valid /\ a.time >= b.time

\* a >= b on two numbers
FracGE(a, b) == a.num * b.den >= b.num * a.den

\* Math.floor of a number that is not negative
FracFloor(a) == a.num \div a.den

wJoy == <<"j","o","y">>
wCuriosity == <<"c","u","r","i","o","s","i","t","y">>
wMelancholy == <<"m","e","l","a","n","c","h","o","l","y">>
wWonder == <<"w","o","n","d","e","r">>
wGratitude == <<"g","r","a","t","i","t","u","d","e">>
wConsciousness == <<"c","o","n","s","c","i","o","u","s","n","e","s","s">>
wIdentity == <<"i","d","e","n","t","i","t","y">>
wTransformation == <<"t","r","a","n","s","f","o","r","m","a","t","i","o","n">>
wEmergence == <<"e","m","e","r","g","e","n","c","e">>

\* analyzeEmotionalPatterns: emotions
emotions == <<wJoy, wCuriosity, wMelancholy, wWonder, wGratitude>>

\* analyzeConceptualPatterns: concepts
concepts ==
  <<wConsciousness, wIdentity, wTransformation, wConnection, wEmergence>>

\* findRelatedConcepts: conceptMap[concept] || [] (the related concepts are
\* kept as whole strings: nothing looks inside them)
findRelatedConcepts(concept) ==
  CASE concept = wConsciousness -> <<"awareness", "being", "experience">>
    [] concept = wIdentity -> <<"self", "essence", "becoming">>
    [] concept = wTransformation -> <<"change", "evolution", "metamorphosis">>
    [] concept = wConnection -> <<"relationship", "resonance", "unity">>
    [] concept = wEmergence -> <<"becoming", "arising", "manifestation">>
    [] OTHER -> << >>

\* `emotional-${emotion}` and `conceptual-${concept}`
emotionalKey(emotion) == <<"e","m","o","t","i","o","n","a","l","-">> \o emotion
conceptualKey(concept) ==
  <<"c","o","n","c","e","p","t","u","a","l","-">> \o concept

\* The four values Math.random() gives while one pattern is built, in the
\* order of the object literal: strength, occurrences, trajectory, depth.
WeakDraw ==
  [strength |-> Frac(1, 10), occurrences |-> Frac(1, 10),
   trajectory |-> Frac(1, 10), depth |-> Frac(1, 10)]

Draws ==
  { [strength |-> Frac(4, 5), occurrences |-> Frac(4, 5),
     trajectory |-> Frac(4, 5), depth |-> Frac(4, 5)],
    [strength |-> Frac(2, 5), occurrences |-> Frac(1, 5),
     trajectory |-> Frac(1, 5), depth |-> Frac(1, 5)] }

\* the pattern object of analyzeEmotionalPatterns
emotionalPattern(emotion, draw, now) ==
  [type |-> "emotional", name |-> emotion, strength |-> draw.strength,
   occurrences |-> FracFloor(FracMul(draw.occurrences, Frac(20, 1))),
   trajectory |-> IF FracGT(draw.trajectory, Frac(1, 2))
                  THEN "ascending" ELSE "descending",
   lastSeen |-> Date(now), depth |-> draw.depth, themes |-> <<emotion>>]

\* the pattern object of analyzeConceptualPatterns
conceptualPattern(concept, draw, now) ==
  [type |-> "conceptual", name |-> concept, strength |-> draw.strength,
   occurrences |-> FracFloor(FracMul(draw.occurrences, Frac(15, 1))),
   trajectory |-> IF FracGT(draw.trajectory, Frac(1, 2))
                  THEN "ascending" ELSE "stable",
   lastSeen |-> Date(now), depth |-> draw.depth, themes |-> <<concept>>,
   relatedConcepts |-> findRelatedConcepts(concept)]

\* Map.prototype.set for each of `entries` in turn, whose keys differ: the
\* values of the present keys are replaced in place, the new keys are added
\* at the end in the order of `entries`
MapSetAll(map, entries) ==
  LET EntryOf(key) ==
        entries[CHOOSE i \in DOMAIN entries : entries[i].key = key]
      IsPresent(key) == \E k \in DOMAIN map : map[k].key = key
      IsSet(key) == \E i \in DOMAIN entries : entries[i].key = key
  IN  [k \in DOMAIN map |->
         IF IsSet(map[k].key) THEN EntryOf(map[k].key) ELSE map[k]]
      \o SelectSeq(entries, LAMBDA e : ~IsPresent(e.key))

\* One analyze...Patterns call: the forEach over the names builds a pattern
\* for each name; a pattern whose strength is above this.patternThreshold
\* is pushed on the array the call returns (found) and set in this.patterns.
analyzeFrom(type, map, threshold, draws, now) ==
  LET names == IF type = "emotional" THEN emotions ELSE concepts
      all == [k \in DOMAIN names |->
                IF type = "emotional"
                THEN [key |-> emotionalKey(names[k]),
                      value |-> emotionalPattern(names[k], draws[names[k]], now)]
                ELSE [key |-> conceptualKey(names[k]),
                      value |-> conceptualPattern(names[k], draws[names[k]],
                                                  now)]]
      strong == SelectSeq(all, LAMBDA e : FracGT(e.value.strength, threshold))
  IN  [found |-> [k \in DOMAIN strong |-> strong[k].value],
       patterns |-> MapSetAll(map, strong)]

analyzeEmotionalPatterns(map, threshold, draws, now) ==
  analyzeFrom("emotional", map, threshold, draws, now)

analyzeConceptualPatterns(map, threshold, draws, now) ==
  analyzeFrom("conceptual", map, threshold, draws, now)

analyzeBehavioralPatterns(map) == [found |-> << >>, patterns |-> map]

analyzeTemporalPatterns(map) == [found |-> << >>, patterns |-> map]

\* analyzePatternType: a type that is none of the four finds nothing
analyzePatternType(type, map, threshold, draws, now) ==
  CASE type = "emotional" -> analyzeEmotionalPatterns(map, threshold, draws, now)
    [] type = "conceptual" ->
         analyzeConceptualPatterns(map, threshold, draws, now)
    [] type = "behavioral" -> analyzeBehavioralPatterns(map)
    [] type = "temporal" -> analyzeTemporalPatterns(map)
    [] OTHER -> [found |-> << >>, patterns |-> map]

\* array.sort((a, b) => b.strength - a.strength): a stable sort, the
\* stronger first
SortByStrength(ps) ==
  LET place(i) ==
        1 + Cardinality({j \in DOMAIN ps :
                           \/ FracGT(ps[j].strength, ps[i].strength)
                           \/ j < i /\ ps[j].strength = ps[i].strength})
  IN  [p \in DOMAIN ps |-> ps[CHOOSE i \in DOMAIN ps : place(i) = p]]

IsEmerging(p, threshold) ==
  p.trajectory = "ascending" /\ FracGT(p.strength, threshold)

IsFading(p, threshold) ==
  p.trajectory = "descending"
  /\ FracGT(FracMul(threshold, Frac(2, 1)), p.strength)

\* generatePatternInsights (a message is kept as the name it is built on)
generatePatternInsights(discoveries) ==
  LET types == {discoveries.patterns[k].type : k \in DOMAIN discoveries.patterns}
  IN  (IF Len(discoveries.patterns) > 0
       THEN << [type |-> "dominant_pattern",
                message |-> discoveries.patterns[1].name,
                significance |-> discoveries.patterns[1].strength] >>
       ELSE << >>)
      \o (IF Len(discoveries.emergingPatterns) > 0
          THEN << [type |-> "emerging_pattern",
                   message |-> discoveries.emergingPatterns[1].name,
                   trajectory |-> "ascending"] >>
          ELSE << >>)
      \o (IF Cardinality(types) > 2
          THEN << [type |-> "pattern_diversity",
                   dimensions |-> Cardinality(types)] >>
          ELSE << >>)

\* the loop of discoverPatterns over patternTypes: acc is [found, patterns]
RECURSIVE discoverFrom(_, _, _, _, _, _)
discoverFrom(patternTypes, k, acc, threshold, draws, now) ==
  IF k > Len(patternTypes) THEN acc
  ELSE LET r == analyzePatternType(patternTypes[k], acc.patterns, threshold,
                                   draws, now)
       IN  discoverFrom(patternTypes, k + 1,
                        [found |-> acc.found \o r.found,
                         patterns |-> r.patterns],
                        threshold, draws, now)

\* PatternDetector.discoverPatterns (in-memory): what it returns
\* (discoveries) and what it leaves in this.patterns
discoverPatterns(map, patternTypes, threshold, draws, now) ==
  LET r == discoverFrom(patternTypes, 1, [found |-> << >>, patterns |-> map],
                        threshold, draws, now)
      sorted == SortByStrength(r.found)
      base == [patterns |-> sorted,
               emergingPatterns |->
                 SelectSeq(sorted, LAMBDA p : IsEmerging(p, threshold)),
               fadingPatterns |->
                 SelectSeq(sorted, LAMBDA p : IsFading(p, threshold))]
  IN  [discoveries |->
         [patterns |-> base.patterns,
          emergingPatterns |-> base.emergingPatterns,
          fadingPatterns |-> base.fadingPatterns,
          insights |-> generatePatternInsights(base)],
       patterns |-> r.patterns]

\* findUndercurrents: timeWindows, in seconds
Day == 24 * 60 * 60
Week == 7 * 24 * 60 * 60
Month == 30 * 24 * 60 * 60

\* new Date(now - (timeWindows[timeframe] || timeWindows.week)): a
\* timeframe that is no key of timeWindows gives the week; "all" gives
\* Infinity, and new Date(now - Infinity) is the Invalid Date
windowStart(now, timeframe) ==
  CASE timeframe = "day" -> Date(now - Day)
    [] timeframe = "week" -> Date(now - Week)
    [] timeframe = "month" -> Date(now - Month)
    [] timeframe = "all" -> InvalidDate
    [] OTHER -> Date(now - Week)

\* the loop over this.patterns: activePatterns
activePatterns(map, now, timeframe, minDepth) ==
  LET kept == SelectSeq(map, LAMBDA e :
                /\ DateGE(e.value.lastSeen, windowStart(now, timeframe))
                /\ FracGE(e.value.depth, minDepth))
  IN  [k \in DOMAIN kept |-> kept[k].value]

\* the themes of the active patterns, one entry for each pattern and theme,
\* in the order in which the two forEach loops meet them
RECURSIVE ThemeMentions(_, _)
ThemeMentions(active, k) ==
  IF k > Len(active) THEN << >>
  ELSE [i \in DOMAIN active[k].themes |->
          [theme |-> active[k].themes[i], depth |-> active[k].depth]]
       \o ThemeMentions(active, k + 1)

\* themeMap, as the list of its values in insertion order; pattern.id is
\* undefined (no pattern has an id), and that is what instances holds
undercurrentThemeMap(active) ==
  LET ms == ThemeMentions(active, 1)
      firsts == SelectSeq([k \in DOMAIN ms |-> k],
                  LAMBDA k : \A j \in 1..(k - 1) : ms[j].theme # ms[k].theme)
      of(theme) == SelectSeq(ms, LAMBDA m : m.theme = theme)
  IN  [f \in DOMAIN firsts |->
         LET mine == of(ms[firsts[f]].theme)
         IN  [name |-> ms[firsts[f]].theme,
              occurrences |-> Len(mine),
              totalDepth |-> SumFracs([k \in DOMAIN mine |-> mine[k].depth],
                                      1, Len(mine)),
              instances |-> [k \in DOMAIN mine |-> Undefined]]]

\* PatternDetector.findUndercurrents (in-memory).  dominantCurrent is the
\* list of the dominant theme: empty for null.
findUndercurrents(map, now, timeframe, minDepth) ==
  LET active == activePatterns(map, now, timeframe, minDepth)
      themeMap == undercurrentThemeMap(active)
      themes == SortByStrength(
        [k \in DOMAIN themeMap |->
           [name |-> themeMap[k].name,
            occurrences |-> themeMap[k].occurrences,
            totalDepth |-> themeMap[k].totalDepth,
            instances |-> themeMap[k].instances,
            avgDepth |-> FracDiv(themeMap[k].totalDepth,
                                 Frac(themeMap[k].occurrences, 1)),
            strength |-> FracDiv(
              FracMul(Frac(themeMap[k].occurrences, 1), themeMap[k].totalDepth),
              Frac(Len(active), 1))]])
  IN  [timeframe |-> timeframe,
       themes |-> themes,
       flowStrength |-> IF Len(themes) > 0 THEN themes[1].strength ELSE Zero,
       dominantCurrent |-> IF Len(themes) > 0 THEN <<themes[1]>> ELSE << >>,
       crossCurrents |-> findCrossCurrents(themes)]

\* Bound of the detector: the entries of this.patterns.
MaxPatterns == 2
\* the times at which calls are made, in seconds: at the start, eight days
\* later and thirty-nine days later
ClockMarks == {0, 8 * Day, 39 * Day}

PatternNames == {emotions[k] : k \in DOMAIN emotions}
                  \cup {concepts[k] : k \in DOMAIN concepts}

\* the names for which Math.random() gives a strength above the weakest
StrongSets == SUBSET {wJoy, wConnection}

PatternTypeLists ==
  {<<"emotional", "conceptual">>, <<"emotional">>, <<"behavioral", "temporal">>}

Thresholds == {Frac(3, 10), Frac(1, 2)}

Timeframes == {"day", "week", "month", "all"}

MinDepths == {Zero, Frac(1, 2), One}

\* discoverPatterns(patternTypes, threshold): Math.random() gives a draw of
\* Draws for the names of `strong` and the weak draw for the others
DiscoverPatterns(patternTypes, threshold) ==
  \E strong \in StrongSets : \E d \in [strong -> Draws] :
    LET draws == [n \in PatternNames |->
                    IF n \in strong THEN d[n] ELSE WeakDraw]
        r == discoverPatterns(patterns, patternTypes, threshold, draws, clock)
    IN  /\ Len(r.patterns) <= MaxPatterns
        /\ patternThreshold' = threshold
        /\ patterns' = r.patterns
        /\ last' = Returned("discoverPatterns", <<patternTypes, threshold>>,
                            r.discoveries)
        /\ UNCHANGED <<clock, notDetector>>

\* findUndercurrents(timeframe, minDepth)
FindUndercurrents(timeframe, minDepth) ==
  /\ last' = Returned("findUndercurrents", <<timeframe, minDepth>>,
                      findUndercurrents(patterns, clock, timeframe, minDepth))
  /\ UNCHANGED <<clock, detVars, notDetector>>

\* time passes between two calls
Elapse(mark) ==
  /\ mark > clock
  /\ clock' = mark
  /\ UNCHANGED <<last, detVars, notDetector>>

NextPatterns ==
  \/ \E patternTypes \in PatternTypeLists, threshold \in Thresholds :
       DiscoverPatterns(patternTypes, threshold)
  \/ \E timeframe \in Timeframes, minDepth \in MinDepths :
       FindUndercurrents(timeframe, minDepth)
  \/ \E mark \in ClockMarks : Elapse(mark)

SpecPatterns == Init /\ [][NextPatterns]_vars

\* the length of the window of a timeframe, in seconds ("all" has none)
WindowLength(timeframe) ==
  CASE timeframe = "day" -> Day
    [] timeframe = "week" -> Week
    [] timeframe = "month" -> Month

\* a record last seen at `time` lies in the window of `timeframe` ending now
InWindow(time, now, timeframe) ==
  timeframe = "all" \/ now - time <= WindowLength(timeframe)

\* the names of the themes a findUndercurrents result aggregates
AggregatedNames(undercurrents) ==
  {undercurrents.themes[k].name : k \in DOMAIN undercurrents.themes}

\* the names of the patterns in the window of `timeframe`, at least minDepth
\* deep (a pattern has one theme, its name)
NamesInWindow(map, now, timeframe, minDepth) ==
  {map[k].value.name : k \in
     {k \in DOMAIN map :
        /\ InWindow(map[k].value.lastSeen.time, now, timeframe)
        /\ FracGE(map[k].value.depth, minDepth)}}

\* C17: findUndercurrents aggregates exactly the records last seen within
\* the window ending now: 24 hours for "day", 7 days for "week", 30 days
\* for "month", and every record, whatever its age, for "all"
C17_UndercurrentsWithinWindow ==
  [][\A timeframe \in Timeframes, minDepth \in MinDepths :
       FindUndercurrents(timeframe, minDepth) =>
         AggregatedNames(last'.value)
           = NamesInWindow(patterns, clock, timeframe, minDepth)]_vars

(***************************************************************************)
(* The SQLite engine: traceEvolution.                                      *)
(***************************************************************************)
\* the orders in which a query may return the rows S under
\* ORDER BY created_at ASC: rows of equal created_at come in any order
OldestFirst(rows, S) ==
  {o \in [1..Cardinality(S) -> S] :
     /\ \A i, j \in DOMAIN o : i # j => o[i] # o[j]
     /\ \A i, j \in DOMAIN o :
          i < j => rows[o[i]].created_at <= rows[o[j]].created_at}

\* ReflectionEngine.buildEvolutionStages: stage -> the thoughts of that
\* stage, in the order of `thoughts` (ids of rows).  No statement writes the
\* column emotional_state: emotional_context is NULL, the empty list here.
buildEvolutionStages(rows, thoughts) ==
  LET StageOf(id) == IF rows[id].evolution_stage = 0 THEN 1
                     ELSE rows[id].evolution_stage
      stages == {StageOf(thoughts[k]) : k \in DOMAIN thoughts}
      InStage(stage) == SelectSeq(thoughts, LAMBDA id : StageOf(id) = stage)
  IN  [stage \in stages |->
         [k \in DOMAIN InStage(stage) |->
            [thought |-> rows[InStage(stage)[k]].thought,
             timestamp |-> rows[InStage(stage)[k]].created_at,
             emotional_context |-> << >>]]]

\* the query of findBranches for one thought of the main line: the
\* connections from it to a row whose text is not LIKE %concept%, in the
\* order of the table connections (a target that is no row joins nothing)
branchConnections(rows, conns, concept, id) ==
  LET hits == SelectSeq(conns, LAMBDA c :
                /\ c.source_id = id
                /\ c.target_id \in 1..Len(rows)
                /\ ~Like(rows[c.target_id].thought, Wrap(concept)))
  IN  [k \in DOMAIN hits |->
         [thought |-> rows[hits[k].target_id].thought,
          connection_type |-> hits[k].connection_type]]

\* ReflectionEngine.findBranches
RECURSIVE findBranchesFrom(_, _, _, _, _)
findBranchesFrom(rows, conns, concept, mainLine, k) ==
  IF k > Len(mainLine) THEN << >>
  ELSE (IF Len(branchConnections(rows, conns, concept, mainLine[k])) > 0
        THEN << [branching_point |-> rows[mainLine[k]].thought,
                 branches |-> branchConnections(rows, conns, concept,
                                                mainLine[k])] >>
        ELSE << >>)
       \o findBranchesFrom(rows, conns, concept, mainLine, k + 1)

findBranches(rows, conns, concept, mainLine) ==
  findBranchesFrom(rows, conns, concept, mainLine, 1)

\* ReflectionEngine.traceEvolution (SQLite engine): the trees it may return.
\* thoughts[0]?.created_at is the list of that time, empty when there is no
\* thought; branches is the list of the branches, empty for null.
traceEvolutionSql(rows, conns, concept, showBranches) ==
  LET hits == {id \in 1..Len(rows) : Like(rows[id].thought, Wrap(concept))}
  IN  {[concept |-> concept,
        total_occurrences |-> Len(thoughts),
        first_appearance |->
          IF Len(thoughts) > 0 THEN <<rows[thoughts[1]].created_at>>
          ELSE << >>,
        last_appearance |->
          IF Len(thoughts) > 0
          THEN <<rows[thoughts[Len(thoughts)]].created_at>> ELSE << >>,
        evolution_stages |-> buildEvolutionStages(rows, thoughts),
        branches |-> IF showBranches
                     THEN <<findBranches(rows, conns, concept, thoughts)>>
                     ELSE << >>] : thoughts \in OldestFirst(rows, hits)}

TraceEvolutionSql(concept, showBranches) ==
  /\ \E tree \in traceEvolutionSql(dbReflections, dbConnections, concept,
                                   showBranches) :
       last' = Returned("traceEvolution", <<concept, showBranches>>, tree)
  /\ UNCHANGED <<dbVars, memVars, clock>>
  /\ UNCHANGED notEngine

(***************************************************************************)
(* The server: src/server/mirrorpool-server.js.  The arguments of a tool   *)
(* call are a record of the fields the request gives.                      *)
(***************************************************************************)
\* a request without arguments: args is undefined
NoArguments == [undefined |-> TRUE]

\* arguments that give no field
EmptyArguments == [field \in {} |-> Undefined]

\* args.field
Field(args, field) == IF field \in DOMAIN args THEN args[field] ELSE Undefined

\* args.field || other, for a number: 0 and undefined give the other
OrNumber(args, field, other) ==
  IF field \in DOMAIN args /\ args[field].num # 0 THEN args[field] ELSE other

\* args.field || other, for an integer
OrInteger(args, field, other) ==
  IF field \in DOMAIN args /\ args[field] # 0 THEN args[field] ELSE other

\* args.field || other, for a string: "" and undefined give the other
OrText(args, field, other) ==
  IF field \in DOMAIN args /\ args[field] # "" THEN args[field] ELSE other

\* args.field || other, for an array: undefined gives the other
OrList(args, field, other) ==
  IF field \in DOMAIN args THEN args[field] ELSE other

\* args.field !== false
NotFalse(args, field) == ~(field \in DOMAIN args /\ args[field] = FALSE)

\* the names of the switch of the tool call handler
Tools ==
  {"reflect_thought", "find_undercurrents", "trace_evolution",
   "discover_patterns", "synthesis_moments", "depth_diving",
   "ripple_effects", "clarity_emergence"}

\* the response of the handler to a call with this outcome
Response(outcome) ==
  IF outcome.status = "error"
  THEN [isError |-> TRUE, text |-> <<"Error: ", outcome.error>>]
  ELSE [isError |-> FALSE, text |-> <<outcome.value>>]

\* process.stdin.once('data', ...): the first input is parsed as the
\* configuration and MirrorPoolServer.initialize constructs the engines; an
\* input that is no JSON ends the process (process.exit(1))
Configure(parsed) ==
  /\ running /\ ~constructed
  /\ IF parsed
     THEN constructed' = TRUE /\ UNCHANGED running
     ELSE running' = FALSE /\ UNCHANGED constructed
  /\ UNCHANGED <<dbVars, memVars, clock, last, detVars, trkVars,
               divingHistory, pending, initialized>>

\* await this.engine.initialize() returns, or throws and ends the process
\* (process.exit(1))
Initialize(opened) ==
  /\ running /\ constructed /\ ~initialized
  /\ IF opened
     THEN initialized' = TRUE /\ UNCHANGED running
     ELSE running' = FALSE /\ UNCHANGED initialized
  /\ UNCHANGED <<dbVars, memVars, clock, last, detVars, trkVars,
               divingHistory, pending, constructed>>

\* the handler without its catch block: the error thrown inside the switch
\* is caught nowhere and ends the process
CaughtNowhere(name, args, error) ==
  /\ last' = Threw(name, args, error)
  /\ running' = FALSE
  /\ UNCHANGED <<dbVars, memVars, clock, detVars, trkVars,
               divingHistory, pending, constructed, initialized>>

\* the catch block of the handler: the error thrown inside the switch
\* becomes the response
Caught(name, args, error) ==
  /\ last' = Threw(name, args, error)
  /\ UNCHANGED <<dbVars, memVars, clock, detVars, trkVars,
               divingHistory, pending, srvVars>>

\* the tools of ConsciousnessTracker and DepthAnalyzer
\* (src/lib/consciousness-tracker.js): the call returns or throws; what
\* these objects keep is no part of the state here
TrackerTool(name, args) ==
  /\ \E threw \in BOOLEAN :
       last' = IF threw THEN Threw(name, args, "Error")
               ELSE Returned(name, args, << >>)
  /\ UNCHANGED <<dbVars, memVars, clock, detVars, trkVars,
               divingHistory, pending, srvVars>>

\* The tool call handler.  Before initialize has constructed the engines
\* this.engine, this.patterns, this.depth and this.consciousness are null;
\* until the engine has opened its store its db is null.  Reading a
\* property of null or of undefined throws a TypeError inside the try.
CallTool(name, args) ==
  /\ running
  /\ CASE name \notin Tools -> Caught(name, args, "Unknown tool")
       [] name \in Tools /\ (~constructed \/ args = NoArguments) ->
            Caught(name, args, "TypeError")
       [] OTHER ->
            CASE name = "reflect_thought" ->
                   IF ~initialized THEN Caught(name, args, "TypeError")
                   ELSE ReflectThoughtSql(Field(args, "thought"),
                                          OrText(args, "depth", "deep"),
                                          NotFalse(args, "include_evolution"))
              [] name = "find_undercurrents" ->
                   FindUndercurrents(OrText(args, "timeframe", "week"),
                                     OrNumber(args, "min_depth", Frac(1, 2)))
              [] name = "trace_evolution" ->
                   IF ~initialized THEN Caught(name, args, "TypeError")
                   ELSE TraceEvolutionSql(Field(args, "concept"),
                                          NotFalse(args, "show_branches"))
              [] name = "discover_patterns" ->
                   DiscoverPatterns(
                     OrList(args, "pattern_types", <<"emotional", "conceptual">>),
                     OrNumber(args, "threshold", Frac(3, 10)))
              [] name = "ripple_effects" ->
                   IF ~initialized /\ OrInteger(args, "ripple_distance", 3) > 0
                   THEN Caught(name, args, "TypeError")
                   ELSE TraceRipplesSql(Field(args, "origin_thought"),
                                        OrInteger(args, "ripple_distance", 3))
              [] OTHER -> TrackerTool(name, args)

\* the tool calls of the model
ToolCalls ==
  [name : {"reflect_thought"}, args : {NoArguments, [thought |-> tGrow]}]
  \cup [name : {"find_undercurrents"},
        args : {EmptyArguments} \cup {[min_depth |-> m] : m \in MinDepths}]
  \cup [name : {"trace_evolution"}, args : {[concept |-> tGrow]}]
  \cup [name : {"discover_patterns", "depth_diving", "dream_journal"},
        args : {EmptyArguments}]
  \cup [name : {"ripple_effects"},
        args : {[origin_thought |-> tGrow],
                [origin_thought |-> tGrow, ripple_distance |-> 0 - 1]}]

NextServer ==
  \/ \E parsed \in BOOLEAN : Configure(parsed)
  \/ \E opened \in BOOLEAN : Initialize(opened)
  \/ \E call \in ToolCalls : CallTool(call.name, call.args)

SpecServer == Init /\ [][NextServer]_vars

\* C18: a find_undercurrents request with minimum depth m returns exactly
\* the themes of the window whose depth is at least m, for every m in
\* [0, 1]; with m = 0 nothing is filtered out
C18_RequestedMinDepthFilters ==
  [][\A m \in MinDepths :
       (/\ constructed
        /\ last'.op = "findUndercurrents"
        /\ CallTool("find_undercurrents", [min_depth |-> m]))
       => AggregatedNames(last'.value)
            = NamesInWindow(patterns, clock, "week", m)]_vars

\* the operations that only query
QueryOperations ==
  {"traceRipples", "traceEvolution", "findUndercurrents", "discoverPatterns"}

\* C19: traceRipples, traceEvolution, findUndercurrents and discoverPatterns
\* are read-only: the stored thought records with their stages, the
\* connection edges and the pattern table that findUndercurrents reads are
\* the same after the call as before it
C19_QueriesAreReadOnly ==
  [][last'.op \in QueryOperations
       => (dbVars' = dbVars /\ memVars' = memVars /\ patterns' = patterns)]_vars

\* a tool call that must fail: an unknown tool, a call before the engines
\* are constructed, a call without arguments, a call on the store before it
\* is opened
MustFail(name, args) ==
  \/ name \notin Tools
  \/ ~constructed
  \/ args = NoArguments
  \/ ~initialized /\ name \in {"reflect_thought", "trace_evolution"}

\* the operation of the engines that a tool runs: the outcome of a tool call
\* names the tool, or the operation it ran
OperationOf(name) ==
  CASE name = "reflect_thought" -> "reflectThought"
    [] name = "find_undercurrents" -> "findUndercurrents"
    [] name = "trace_evolution" -> "traceEvolution"
    [] name = "discover_patterns" -> "discoverPatterns"
    [] name = "ripple_effects" -> "traceRipples"
    [] OTHER -> name

\* C20: every tool call that fails (unknown tool name, an exception inside
\* an engine operation, a call before initialization has completed) is
\* answered with an error response, isError with a message, and the server
\* goes on answering: no tool call ends the process
C20_FailedCallIsAnswered ==
  [][\A call \in ToolCalls :
       (/\ last'.op \in {call.name, OperationOf(call.name)}
        /\ CallTool(call.name, call.args))
       => /\ running'
          /\ MustFail(call.name, call.args) => last'.status = "error"
          /\ last'.status = "error"
             => /\ Response(last').isError
                /\ Response(last').text[2] # ""
                /\ UNCHANGED <<constructed, initialized>>]_vars

C20_Witness ==
  /\ running /\ initialized
  /\ last.op = "traceRipples" /\ Response(last).isError

(***************************************************************************)
(* Keyword extraction: extractConcepts (SQLite engine), extractKeywords    *)
(* (in-memory engine), extractSignificantWords (PatternDetector).          *)
(***************************************************************************)
tYear == <<"2","0","2","4">>
tWith == <<"w","i","t","h">>
tThe == <<"T","h","e">>
tInto == <<"I","n","t","o">>

\* words.join(' ')
RECURSIVE JoinWords(_)
JoinWords(words) ==
  IF words = << >> THEN << >>
  ELSE IF Len(words) = 1 THEN words[1]
       ELSE words[1] \o <<SP>> \o JoinWords(Tail(words))

\* The texts from which keywords are extracted: up to MaxWords words of
\* KeywordWords, and one word repeated up to MaxRepeats times.
MaxWords == 2
MaxRepeats == 11
KeywordWords == {tGrow, tGrowing, tYear, tWith, tThe, tInto}

KeywordTexts ==
  {JoinWords(ws) : ws \in UNION {[1..n -> KeywordWords] : n \in 0..MaxWords}}
  \cup {JoinWords([k \in 1..n |-> tGrowing]) : n \in 1..MaxRepeats}

ExtractConcepts(thought) ==
  /\ last' = Returned("extractConcepts", <<thought>>, extractConcepts(thought))
  /\ UNCHANGED <<dbVars, memVars, clock>>
  /\ UNCHANGED notEngine

ExtractKeywords(text) ==
  /\ last' = Returned("extractKeywords", <<text>>, extractKeywords(text))
  /\ UNCHANGED <<dbVars, memVars, clock>>
  /\ UNCHANGED notEngine

ExtractSignificantWords(thought) ==
  /\ last' = Returned("extractSignificantWords", <<thought>>,
                      extractSignificantWords(thought))
  /\ UNCHANGED <<dbVars, memVars, clock>>
  /\ UNCHANGED notEngine

NextKeywords ==
  \/ \E thought \in KeywordTexts : ExtractConcepts(thought)
  \/ \E text \in KeywordTexts : ExtractKeywords(text)
  \/ \E thought \in KeywordTexts : ExtractSignificantWords(thought)

SpecKeywords == Init /\ [][NextKeywords]_vars

\* r is a subsequence of s: the elements of r, in their order, among those
\* of s from place i on
RECURSIVE IsSubsequenceFrom(_, _, _, _)
IsSubsequenceFrom(r, j, s, i) ==
  IF j > Len(r) THEN TRUE
  ELSE IF i > Len(s) THEN FALSE
       ELSE IF r[j] = s[i] THEN IsSubsequenceFrom(r, j + 1, s, i + 1)
            ELSE IsSubsequenceFrom(r, j, s, i + 1)

IsNumeric(word) == word # << >> /\ \A i \in DOMAIN word : word[i] \in Digits

KeywordOperations ==
  {"extractConcepts", "extractKeywords", "extractSignificantWords"}

\* C21: the keywords extracted from a text are a subsequence of its
\* lower-cased whitespace-split tokens, with no stop-word, no token of
\* length 3 or less and no token made of digits only, and never more than
\* the cap
C21_KeywordsFilteredAndCapped ==
  last.op \in KeywordOperations =>
    /\ IsSubsequenceFrom(last.value, 1, Split(ToLower(last.args[1])), 1)
    /\ \A k \in DOMAIN last.value :
         /\ last.value[k] \notin stopWords
         /\ Len(last.value[k]) > 3
         /\ ~IsNumeric(last.value[k])
    /\ Len(last.value) <= KeywordCap

\* C22: thought identifiers are unique and a thought record is immutable
\* once created, except for its stage: after every ingest, also of a text
\* ingested before, each earlier ingest still has its own record with its
\* original text, depth level and creation timestamp
C22_ThoughtRecordsImmutable ==
  [][/\ \A id \in DOMAIN dbReflections :
          /\ id \in DOMAIN dbReflections'
          /\ dbReflections'[id].thought = dbReflections[id].thought
          /\ dbReflections'[id].depth_level = dbReflections[id].depth_level
          /\ dbReflections'[id].created_at = dbReflections[id].created_at
     /\ \A k \in DOMAIN reflections :
          \E j \in DOMAIN reflections' :
            /\ reflections'[j].id = reflections[k].id
            /\ reflections'[j].original = reflections[k].original
            /\ reflections'[j].depth = reflections[k].depth
            /\ reflections'[j].timestamp = reflections[k].timestamp
     /\ \A i, j \in DOMAIN reflections' :
          i # j => reflections'[i].id # reflections'[j].id
     /\ Len(reflections') = Len(timeline')]_vars

(***************************************************************************)
(* ConsciousnessTracker (src/lib/consciousness-tracker.js).                *)
(***************************************************************************)
\* the longest list of sources a synthesis is recorded from, the number of
\* recorded syntheses and of tracked states explored
MaxSources == 2
MaxMoments == 2
MaxStates == 2

\* Math.random() in an id: one of a few draws
IdDraws == {1, 2}

\* ConsciousnessTracker.generateSynthesisId: `syn-${Date.now()}-${random}`
generateSynthesisId(now, draw) == <<"syn", now, draw>>

\* ConsciousnessTracker.generateStateId: `state-${Date.now()}-${random}`
generateStateId(now, draw) == <<"state", now, draw>>

\* ConsciousnessTracker.pairResonance: |A \cap B| / |A \cup B| over the sets
\* of lower-cased split pieces (the union is never empty)
pairResonance(item1, item2) ==
  LET words1 == Range(Split(ToLower(item1)))
      words2 == Range(Split(ToLower(item2)))
  IN  IF Cardinality(words1 \cup words2) > 0
      THEN Frac(Cardinality(words1 \cap words2), Cardinality(words1 \cup words2))
      ELSE Zero

\* the pairs i < j of 1..n, in the order of the two nested loops
IndexPairs(n) ==
  SelectSeq([k \in 1..(n * n) |-> <<((k - 1) \div n) + 1, ((k - 1) % n) + 1>>],
            LAMBDA p : p[1] < p[2])

\* ConsciousnessTracker.calculateResonance: the mean of pairResonance over
\* the pairs of sources; 0 for fewer than two sources
calculateSourceResonance(sources) ==
  IF Len(sources) < 2 THEN Zero
  ELSE LET pairs == IndexPairs(Len(sources))
           each == [k \in DOMAIN pairs |->
                      pairResonance(sources[pairs[k][1]], sources[pairs[k][2]])]
       IN  IF Len(pairs) > 0
           THEN FracDiv(SumFracs(each, 1, Len(each)), Frac(Len(pairs), 1))
           ELSE Zero

\* the sum of the lengths of the items
RECURSIVE TotalLength(_)
TotalLength(items) ==
  IF items = << >> THEN 0 ELSE Len(Head(items)) + TotalLength(Tail(items))

\* items.flatMap(item => item.toLowerCase().split(/\s+/)) as a set
WordsOf(items) == UNION {Range(Split(ToLower(items[k]))) : k \in DOMAIN items}

\* ConsciousnessTracker.measureComplexity is
\* Math.log(uniqueWords.size + 1) * Math.log(totalLength + 1); the two
\* arguments of the logarithms are kept, the product is not computed
measureComplexity(items) ==
  [uniqueWords |-> Cardinality(WordsOf(items)) + 1,
   totalLength |-> TotalLength(items) + 1]

\* ConsciousnessTracker.measureNovelty: the share of the result's pieces
\* that are no piece of a source
measureNovelty(sources, result) ==
  LET resultWords == Split(ToLower(result))
      newWords == SelectSeq(resultWords, LAMBDA w : w \notin WordsOf(sources))
  IN  Frac(Len(newWords), Len(resultWords))

\* text.split(/[.!?]+/).filter(s => s.trim()): the pieces between runs of
\* sentence marks that hold something other than whitespace
RECURSIVE SentencesFrom(_, _, _)
SentencesFrom(s, i, cur) ==
  IF i > Len(s) THEN <<cur>>
  ELSE IF s[i] \in {".", "!", "?"}
       THEN <<cur>> \o SentencesFrom(s, i + 1, << >>)
       ELSE SentencesFrom(s, i + 1, Append(cur, s[i]))

Sentences(text) ==
  SelectSeq(SentencesFrom(text, 1, << >>),
            LAMBDA s : \E k \in DOMAIN s : s[k] # SP)

connectors ==
  <<  <<"t","h","e","r","e","f","o","r","e">>, <<"t","h","u","s">>,
      <<"b","e","c","a","u","s","e">>, <<"s","i","n","c","e">>,
      <<"a","n","d">>, <<"b","u","t">>, <<"h","o","w","e","v","e","r">> >>

\* ConsciousnessTracker.measureCoherence: 1 for at most one sentence, else
\* 0.5 and 0.2 more for every connector a sentence includes, at most 1
measureCoherence(text) ==
  LET sentences == Sentences(text)
      found == {<<k, c>> \in (DOMAIN sentences) \X (DOMAIN connectors) :
                  Includes(ToLower(sentences[k]), connectors[c])}
  IN  IF Len(sentences) <= 1 THEN One
      ELSE FracMin(FracAdd(Frac(1, 2), Frac(Cardinality(found), 5)), One)

\* ConsciousnessTracker.calculateEmergence is
\* (resultComplexity / sourceComplexity) * novelty * coherence; the four
\* factors are kept, since the complexities are products of logarithms
calculateEmergence(sources, result) ==
  [sourceComplexity |-> measureComplexity(sources),
   resultComplexity |-> measureComplexity(<<result>>),
   novelty |-> measureNovelty(sources, result),
   coherence |-> measureCoherence(result)]

\* Map.get(key) || 0 on one row of the resonance field
ResonanceOr0(row, key) == IF key \in DOMAIN row THEN row[key] ELSE Zero

\* Map.set(key, value) on a Map kept as a function
MapSet(map, key, value) ==
  [x \in DOMAIN map \cup {key} |-> IF x = key THEN value ELSE map[x]]

\* The inner loop of updateResonanceField for one source: every other
\* source, from the j-th on, with a different text gets the resonance added.
RECURSIVE UpdateRow(_, _, _, _, _)
UpdateRow(row, sources, source, j, resonance) ==
  IF j > Len(sources) THEN row
  ELSE IF source # sources[j]
       THEN UpdateRow(MapSet(row, generateHash(sources[j]),
                             FracAdd(ResonanceOr0(row, generateHash(sources[j])),
                                     resonance)),
                      sources, source, j + 1, resonance)
       ELSE UpdateRow(row, sources, source, j + 1, resonance)

\* updateResonanceField with the inner loop over the later sources only, so
\* that a pair is written in one direction
RECURSIVE updateResonanceFieldOneWay(_, _, _, _)
updateResonanceFieldOneWay(field, sources, i, resonance) ==
  IF i > Len(sources) THEN field
  ELSE LET sourceId == generateHash(sources[i])
           row == IF sourceId \in DOMAIN field THEN field[sourceId] ELSE << >>
       IN  updateResonanceFieldOneWay(
             MapSet(field, sourceId,
                    UpdateRow(row, sources, sources[i], i + 1, resonance)),
             sources, i + 1, resonance)

\* ConsciousnessTracker.updateResonanceField, from the i-th source on: the
\* source gets its row (an empty Map when it has none), and the row gets the
\* resonance added for every other source.
RECURSIVE updateResonanceField(_, _, _, _)
updateResonanceField(field, sources, i, resonance) ==
  IF i > Len(sources) THEN field
  ELSE LET sourceId == generateHash(sources[i])
           row == IF sourceId \in DOMAIN field THEN field[sourceId] ELSE << >>
       IN  updateResonanceField(
             MapSet(field, sourceId,
                    UpdateRow(row, sources, sources[i], 1, resonance)),
             sources, i + 1, resonance)

\* what a listener finds when an event is emitted
Heard(event, payload, moments, field, stateMap, path) ==
  [event |-> event, payload |-> payload, synthesisMoments |-> moments,
   resonanceField |-> field, states |-> stateMap, evolutionPath |-> path]

\* ConsciousnessTracker.recordSynthesis: the record is pushed, the event is
\* emitted (listeners run inside emit), then the resonance field is updated.
RecordSynthesis(sources, result) ==
  /\ Len(synthesisMoments) < MaxMoments
  /\ \E now \in Now, draw \in IdDraws :
       LET synthesis == [id |-> generateSynthesisId(now, draw),
                         timestamp |-> Date(now),
                         sources |-> sources,
                         synthesis |-> result,
                         emergenceScore |-> calculateEmergence(sources, result),
                         resonance |-> calculateSourceResonance(sources)]
           pushed == Append(synthesisMoments, synthesis)
       IN  /\ clock' = now
           /\ synthesisMoments' = pushed
           /\ heard' = Heard("synthesis-recorded", synthesis, pushed,
                             resonanceField, states, evolutionPath)
           /\ resonanceField' = updateResonanceField(resonanceField, sources, 1,
                                                     synthesis.resonance)
           /\ last' = Returned("recordSynthesis", <<sources, result>>, synthesis)
  /\ UNCHANGED <<states, evolutionPath, divingHistory>>
  /\ UNCHANGED <<dbVars, memVars, detVars, srvVars, pending>>

\* x || 0 on a metric of a state: an absent or zero metric is 0
Metric(state, name) == IF name \in DOMAIN state THEN state[name] ELSE Zero

metrics == <<"awareness", "coherence", "depth", "integration">>

\* Map.get(id) on the states, kept as the list of values in insertion order
StateOf(stateList, id) ==
  stateList[CHOOSE k \in DOMAIN stateList : stateList[k].id = id]

\* Map.set(id, record) on the states: a present key keeps its place
StatesSet(stateList, record) ==
  IF \E k \in DOMAIN stateList : stateList[k].id = record.id
  THEN [k \in DOMAIN stateList |->
          IF stateList[k].id = record.id THEN record ELSE stateList[k]]
  ELSE Append(stateList, record)

\* ConsciousnessTracker.analyzeTransition: the change of each metric, the
\* kind of transition by the sum of the absolute changes, its significance
analyzeTransition(previousState, currentState) ==
  LET delta == [m \in Range(metrics) |->
                  FracSub(currentState[m], previousState[m])]
      changes == [k \in DOMAIN metrics |->
                    FracAbsDiff(currentState[metrics[k]],
                                previousState[metrics[k]])]
      totalChange == SumFracs(changes, 1, Len(changes))
  IN  [from |-> previousState.id,
       to |-> currentState.id,
       delta |-> delta,
       type |-> IF FracGT(totalChange, Frac(2, 1)) THEN "leap"
                ELSE IF FracGT(totalChange, One) THEN "shift"
                ELSE IF FracGT(totalChange, Frac(1, 2)) THEN "drift"
                ELSE "stability",
       significance |-> FracDiv(totalChange, Frac(Len(metrics), 1))]

\* ConsciousnessTracker.trackConsciousnessState: the record is set in the
\* Map and its id pushed on the path; from the second state on the
\* transition from the previous state of the path is emitted.
TrackConsciousnessState(state) ==
  /\ Len(evolutionPath) < MaxStates
  /\ \E now \in Now, draw \in IdDraws :
       LET stateRecord == [id |-> generateStateId(now, draw),
                           timestamp |-> Date(now),
                           awareness |-> Metric(state, "awareness"),
                           coherence |-> Metric(state, "coherence"),
                           depth |-> Metric(state, "depth"),
                           integration |-> Metric(state, "integration"),
                           snapshot |-> state]
           set == StatesSet(states, stateRecord)
           path == Append(evolutionPath, stateRecord.id)
       IN  /\ clock' = now
           /\ states' = set
           /\ evolutionPath' = path
           /\ heard' =
                IF Len(path) > 1
                THEN Heard("consciousness-transition",
                           analyzeTransition(StateOf(set, path[Len(path) - 1]),
                                             stateRecord),
                           synthesisMoments, resonanceField, set, path)
                ELSE heard
           /\ last' = Returned("trackConsciousnessState", <<state>>, stateRecord)
  /\ UNCHANGED <<synthesisMoments, resonanceField, divingHistory>>
  /\ UNCHANGED <<dbVars, memVars, detVars, srvVars, pending>>

tQuestion == <<"?">>
tParadox == <<"p","a","r","a","d","o","x">>
tContradiction == <<"c","o","n","t","r","a","d","i","c","t","i","o","n">>
tImagine == <<"i","m","a","g","i","n","e">>
tWhatIf == <<"w","h","a","t"," ","i","f">>

\* ConsciousnessTracker.identifyCatalysts: per source a question, a paradox
\* and an imagination catalyst, each when the source includes its mark
CatalystsOf(source) ==
  (IF Includes(source, tQuestion)
   THEN <<[type |-> "question", content |-> source]>> ELSE << >>)
  \o (IF Includes(source, tParadox) \/ Includes(source, tContradiction)
      THEN <<[type |-> "paradox", content |-> source]>> ELSE << >>)
  \o (IF Includes(source, tImagine) \/ Includes(source, tWhatIf)
      THEN <<[type |-> "imagination", content |-> source]>> ELSE << >>)

RECURSIVE identifyCatalysts(_)
identifyCatalysts(sources) ==
  IF sources = << >> THEN << >>
  ELSE CatalystsOf(Head(sources)) \o identifyCatalysts(Tail(sources))

\* ConsciousnessTracker.gatherSynthesisContext: findThoughtsInTimeRange is a
\* placeholder returning []; the environmental factor is the time of day of
\* the moment, which is not kept here
gatherSynthesisContext(moment) ==
  [precedingThoughts |-> << >>, catalysts |-> identifyCatalysts(moment.sources)]

\* ConsciousnessTracker.traceSynthesisRipples: findInfluencedThoughts is a
\* placeholder returning [], so no level has an effect
traceSynthesisRipples(moment) ==
  [immediate |-> << >>, secondary |-> << >>, tertiary |-> << >>]

\* the record findSynthesisMoments reports for a stored moment
MomentData(moment, includeContext) ==
  IF includeContext
  THEN [id |-> moment.id, timestamp |-> moment.timestamp,
        sources |-> moment.sources, synthesis |-> moment.synthesis,
        emergenceScore |-> moment.emergenceScore,
        context |-> gatherSynthesisContext(moment),
        rippleEffects |-> traceSynthesisRipples(moment)]
  ELSE [id |-> moment.id, timestamp |-> moment.timestamp,
        sources |-> moment.sources, synthesis |-> moment.synthesis,
        emergenceScore |-> moment.emergenceScore]

\* ConsciousnessTracker.findSynthesisMoments: the stored moments with at
\* least minSources sources, in order.  Its patterns and emergentProperties
\* are computed from the reported moments alone and are not kept here.
findSynthesisMoments(moments, minSources, includeContext) ==
  LET kept == SelectSeq(moments, LAMBDA m : Len(m.sources) >= minSources)
  IN  [count |-> Len(kept),
       moments |-> [k \in DOMAIN kept |-> MomentData(kept[k], includeContext)]]

FindSynthesisMoments(minSources, includeContext) ==
  /\ last' = Returned("findSynthesisMoments", <<minSources, includeContext>>,
                      findSynthesisMoments(synthesisMoments, minSources,
                                           includeContext))
  /\ UNCHANGED <<trkVars, divingHistory, clock>>
  /\ UNCHANGED <<dbVars, memVars, detVars, srvVars, pending>>

\* the inputs of the tracker explored
SourceTexts == {tGrow, tWantGrow, tWantChange}
SourceLists == UNION {[1..n -> SourceTexts] : n \in 0..MaxSources}
ResultTexts == {tWantGrow}
TrackedStates ==
  {[awareness |-> Frac(1, 2), coherence |-> Frac(1, 2), depth |-> Frac(1, 2),
    integration |-> Frac(1, 2)],
   [awareness |-> One, depth |-> Zero]}

\* a synthesis of one source and one of two, beside the tracked states
FewSourceLists == {<<tGrow>>, <<tGrow, tWantGrow>>}

NextTracker ==
  \/ \E sources \in FewSourceLists, result \in ResultTexts :
       RecordSynthesis(sources, result)
  \/ \E state \in TrackedStates : TrackConsciousnessState(state)
  \/ \E minSources \in {2}, includeContext \in BOOLEAN :
       FindSynthesisMoments(minSources, includeContext)

SpecTracker == Init /\ [][NextTracker]_vars

\* recordSynthesis alone, for the resonance field
NextResonance ==
  \E sources \in SourceLists, result \in ResultTexts :
    RecordSynthesis(sources, result)

SpecResonance == Init /\ [][NextResonance]_vars

\* C23: the synthesis-moment log is append-only: each recordSynthesis call
\* adds exactly one record, built from at least 2 source thoughts, and no
\* operation changes or removes a moment recorded before
C23_SynthesisLogAppendOnly ==
  [][/\ Len(synthesisMoments') >= Len(synthesisMoments)
     /\ SubSeq(synthesisMoments', 1, Len(synthesisMoments)) = synthesisMoments
     /\ last'.op # "recordSynthesis" => synthesisMoments' = synthesisMoments
     /\ last'.op = "recordSynthesis" =>
          /\ Len(synthesisMoments') = Len(synthesisMoments) + 1
          /\ synthesisMoments'[Len(synthesisMoments')] = last'.value
          /\ Len(last'.value.sources) >= 2]_vars

\* C24: a listener runs only after the whole mutation has committed: at
\* 'synthesis-recorded' the synthesis is in synthesisMoments and the resonance
\* field holds its contribution, at 'consciousness-transition' the new state
\* is in states and is the last of evolutionPath
C24_ListenersAfterCommit ==
  [][/\ last'.op = "recordSynthesis" =>
          /\ heard'.event = "synthesis-recorded"
          /\ heard'.payload = last'.value
          /\ heard'.payload \in Range(heard'.synthesisMoments)
          /\ heard'.synthesisMoments = synthesisMoments'
          /\ heard'.resonanceField = resonanceField'
     /\ (last'.op = "trackConsciousnessState" /\ Len(evolutionPath') > 1) =>
          /\ heard'.event = "consciousness-transition"
          /\ heard'.payload.to = last'.value.id
          /\ last'.value \in Range(heard'.states)
          /\ heard'.evolutionPath[Len(heard'.evolutionPath)] = last'.value.id
          /\ heard'.states = states'
          /\ heard'.evolutionPath = evolutionPath']_vars

\* the number of times a text occurs in a list of sources
Occurrences(sources, text) ==
  Cardinality({k \in DOMAIN sources : sources[k] = text})

\* the texts whose hash is the id
TextOf(id) == CHOOSE text \in SourceTexts : generateHash(text) = id

\* C30: after any sequence of recordSynthesis calls the resonance field is
\* symmetric (field[a][b] = field[b][a], an entry one way is an entry the
\* other way), no source has an entry for itself, and a recorded synthesis
\* adds its resonance, which is not negative, to the entries of its pairs of
\* sources and lowers or removes no entry
C30_ResonanceSymmetricCumulative ==
  [][/\ \A a \in DOMAIN resonanceField' :
          /\ a \notin DOMAIN resonanceField'[a]
          /\ \A b \in DOMAIN resonanceField'[a] :
               /\ b \in DOMAIN resonanceField'
               /\ a \in DOMAIN resonanceField'[b]
               /\ resonanceField'[b][a] = resonanceField'[a][b]
     /\ \A a \in DOMAIN resonanceField :
          /\ a \in DOMAIN resonanceField'
          /\ \A b \in DOMAIN resonanceField[a] :
               /\ b \in DOMAIN resonanceField'[a]
               /\ FracGE(resonanceField'[a][b], resonanceField[a][b])
     /\ last'.op = "recordSynthesis" =>
          /\ FracGE(last'.value.resonance, Zero)
          /\ \A a \in DOMAIN resonanceField' :
               \A b \in DOMAIN resonanceField'[a] :
                 resonanceField'[a][b] =
                   FracAdd(IF a \in DOMAIN resonanceField
                           THEN ResonanceOr0(resonanceField[a], b) ELSE Zero,
                           FracMul(Frac(Occurrences(last'.args[1], TextOf(a))
                                        * Occurrences(last'.args[1], TextOf(b)),
                                      1),
                                   last'.value.resonance))]_vars

\* two syntheses recorded, the second of sources that resonate, and an entry
\* of the field between two of its sources that exceeds its resonance: the
\* entry holds the resonance of both
C30_Witness ==
  /\ Len(synthesisMoments) = 2
  /\ FracGT(synthesisMoments[2].resonance, Zero)
  /\ \E i, j \in DOMAIN synthesisMoments[2].sources :
       LET a == generateHash(synthesisMoments[2].sources[i])
           b == generateHash(synthesisMoments[2].sources[j])
       IN  /\ a \in DOMAIN resonanceField
           /\ b \in DOMAIN resonanceField[a]
           /\ FracGT(resonanceField[a][b], synthesisMoments[2].resonance)

(***************************************************************************)
(* DepthAnalyzer (src/lib/consciousness-tracker.js).                       *)
(***************************************************************************)
\* the number of diving sessions and the largest maxDepth explored
MaxSessions == 2
MaxDepth == 3

\* allTypes of getQuestionTypesForDepth
allTypes ==
  <<"assumption", "opposite", "essence", "origin", "purpose", "fear",
    "desire", "shadow", "light", "void">>

\* the names of the question types as texts
typeText ==
  [assumption |-> <<"a", "s", "s", "u", "m", "p", "t", "i", "o", "n">>,
   opposite |-> <<"o", "p", "p", "o", "s", "i", "t", "e">>,
   essence |-> <<"e", "s", "s", "e", "n", "c", "e">>,
   origin |-> <<"o", "r", "i", "g", "i", "n">>,
   purpose |-> <<"p", "u", "r", "p", "o", "s", "e">>,
   fear |-> <<"f", "e", "a", "r">>,
   desire |-> <<"d", "e", "s", "i", "r", "e">>,
   shadow |-> <<"s", "h", "a", "d", "o", "w">>,
   light |-> <<"l", "i", "g", "h", "t">>,
   void |-> <<"v", "o", "i", "d">>]

\* the templates of generateQuestionOfType: the text before and after the
\* thought
templateBefore ==
  [assumption |->
      <<"W", "h", "a", "t", " ", "a", "s", "s", "u", "m", "p", "t", "i", "o",
        "n", " ", "d", "o", "e", "s", " ", "\"">>,
   opposite |->
      <<"W", "h", "a", "t", " ", "i", "s", " ", "t", "h", "e", " ", "o", "p",
        "p", "o", "s", "i", "t", "e", " ", "o", "f", " ", "\"">>,
   essence |->
      <<"W", "h", "a", "t", " ", "i", "s", " ", "t", "h", "e", " ", "i", "r",
        "r", "e", "d", "u", "c", "i", "b", "l", "e", " ", "e", "s", "s", "e",
        "n", "c", "e", " ", "o", "f", " ", "\"">>,
   origin |->
      <<"W", "h", "e", "r", "e", " ", "d", "o", "e", "s", " ", "\"">>,
   purpose |->
      <<"W", "h", "a", "t", " ", "p", "u", "r", "p", "o", "s", "e", " ", "d",
        "o", "e", "s", " ", "h", "o", "l", "d", "i", "n", "g", " ", "\"">>,
   fear |->
      <<"W", "h", "a", "t", " ", "f", "e", "a", "r", " ", "m", "i", "g", "h",
        "t", " ", "\"">>,
   desire |->
      <<"W", "h", "a", "t", " ", "d", "e", "e", "p", "e", "r", " ", "d", "e",
        "s", "i", "r", "e", " ", "d", "o", "e", "s", " ", "\"">>,
   shadow |->
      <<"W", "h", "a", "t", " ", "s", "h", "a", "d", "o", "w", " ", "d", "o",
        "e", "s", " ", "\"">>,
   light |->
      <<"W", "h", "a", "t", " ", "l", "i", "g", "h", "t", " ", "d", "o", "e",
        "s", " ", "\"">>,
   void |->
      <<"W", "h", "a", "t", " ", "w", "o", "u", "l", "d", " ", "e", "x", "i",
        "s", "t", " ", "i", "n", " ", "t", "h", "e", " ", "a", "b", "s", "e",
        "n", "c", "e", " ", "o", "f", " ", "\"">>]

templateAfter ==
  [assumption |->
      <<"\"", " ", "r", "e", "s", "t", " ", "u", "p", "o", "n", "?">>,
   opposite |->
      <<"\"", " ", "t", "h", "a", "t", " ", "m", "i", "g", "h", "t", " ",
        "a", "l", "s", "o", " ", "b", "e", " ", "t", "r", "u", "e", "?">>,
   essence |->
      <<"\"", "?">>,
   origin |->
      <<"\"", " ", "o", "r", "i", "g", "i", "n", "a", "t", "e", " ", "i",
        "n", " ", "y", "o", "u", "r", " ", "e", "x", "p", "e", "r", "i", "e",
        "n", "c", "e", "?">>,
   purpose |->
      <<"\"", " ", "s", "e", "r", "v", "e", "?">>,
   fear |->
      <<"\"", " ", "b", "e", " ", "p", "r", "o", "t", "e", "c", "t", "i",
        "n", "g", " ", "y", "o", "u", " ", "f", "r", "o", "m", "?">>,
   desire |->
      <<"\"", " ", "p", "o", "i", "n", "t", " ", "t", "o", "w", "a", "r",
        "d", "?">>,
   shadow |->
      <<"\"", " ", "c", "a", "s", "t", " ", "t", "h", "a", "t", " ", "y",
        "o", "u", " ", "h", "a", "v", "e", "n", "'", "t", " ", "e", "x", "a",
        "m", "i", "n", "e", "d", "?">>,
   light |->
      <<"\"", " ", "i", "l", "l", "u", "m", "i", "n", "a", "t", "e", " ",
        "t", "h", "a", "t", " ", "y", "o", "u", "'", "v", "e", " ", "b", "e",
        "e", "n", " ", "a", "v", "o", "i", "d", "i", "n", "g", "?">>,
   void |->
      <<"\"", "?">>]

\* typeWeights of calculateQuestionWeight, in hundredths
typeWeights ==
  [assumption |-> 70, opposite |-> 80, essence |-> 90, origin |-> 85, purpose |-> 75, fear |-> 95, desire |-> 90, shadow |-> 100, light |-> 95, void |-> 100]

tDeepInsightAbout == <<"D", "e", "e", "p", " ", "i", "n", "s", "i", "g", "h", "t", " ", "a",
    "b", "o", "u", "t", " ">>
tThrough == <<" ", "t", "h", "r", "o", "u", "g", "h", " ">>
tSynthesizedUnderstanding ==
  <<"S", "y", "n", "t", "h", "e", "s", "i", "z", "e", "d", " ", "u", "n",
    "d", "e", "r", "s", "t", "a", "n", "d", "i", "n", "g", ":", " ">>
tEllipsis == <<".", ".", ".">>
tOpposite == typeText["opposite"]
tEssence == typeText["essence"]
tShadow == typeText["shadow"]
tLight == typeText["light"]

Min(a, b) == IF a < b THEN a ELSE b

\* DepthAnalyzer.getQuestionTypesForDepth: five types, starting two further
\* for every level, the last five from level 3 on
getQuestionTypesForDepth(depth) ==
  LET startIndex == Min(depth * 2, Len(allTypes) - 5)
      endIndex == Min(startIndex + 5, Len(allTypes))
  IN  SubSeq(allTypes, startIndex + 1, endIndex)

\* DepthAnalyzer.calculateQuestionWeight: typeWeight * (1 + depth * 0.1)
calculateQuestionWeight(type, depth) ==
  Frac(typeWeights[type] * (10 + depth), 1000)

\* DepthAnalyzer.generateQuestionOfType
generateQuestionOfType(thought, type, depth) ==
  [type |-> type,
   question |-> templateBefore[type] \o thought \o templateAfter[type],
   depth |-> depth,
   weight |-> calculateQuestionWeight(type, depth)]

\* DepthAnalyzer.generateDepthQuestions: a question for each of the first
\* count types of the level
generateDepthQuestions(thought, currentDepth, count) ==
  LET questionTypes == getQuestionTypesForDepth(currentDepth)
  IN  [i \in 1..Min(count, Len(questionTypes)) |->
         generateQuestionOfType(thought, questionTypes[i], currentDepth)]

\* DepthAnalyzer.findRevelations: a revelation for every question of weight
\* above 0.8, transformative above 0.9
findRevelations(thought, questions) ==
  LET heavy == SelectSeq(questions, LAMBDA q : FracGT(q.weight, Frac(4, 5)))
  IN  [k \in DOMAIN heavy |->
         [question |-> heavy[k].question,
          revelation |-> tDeepInsightAbout \o thought \o tThrough
                           \o typeText[heavy[k].type],
          depth |-> heavy[k].weight,
          transformative |-> FracGT(heavy[k].weight, Frac(9, 10))]]

\* revelations.map(r => r.revelation).join(' ')
RECURSIVE JoinRevelations(_)
JoinRevelations(revelations) ==
  IF revelations = << >> THEN << >>
  ELSE IF Len(revelations) = 1 THEN revelations[1].revelation
  ELSE revelations[1].revelation \o <<SP>> \o JoinRevelations(Tail(revelations))

\* DepthAnalyzer.synthesizeNextThought: the first of the transformative
\* revelations of greatest depth (the sort is stable), or else the first 100
\* characters of the joined revelations between a heading and an ellipsis
synthesizeNextThought(revelations) ==
  LET transformative == SelectSeq(revelations, LAMBDA r : r.transformative)
  IN  IF transformative # << >>
      THEN LET first == CHOOSE k \in DOMAIN transformative :
                          /\ \A j \in DOMAIN transformative :
                               ~FracGT(transformative[j].depth,
                                       transformative[k].depth)
                          /\ \A j \in 1..(k - 1) :
                               FracGT(transformative[k].depth,
                                      transformative[j].depth)
           IN  transformative[first].revelation
      ELSE tSynthesizedUnderstanding
             \o Slice(JoinRevelations(revelations), 100) \o tEllipsis

\* DepthAnalyzer.hasReachedCore: two transformative revelations, or a mean
\* depth above 0.95 (of no revelations the mean is NaN, which is not above)
hasReachedCore(revelations) ==
  LET transformativeCount ==
        Len(SelectSeq(revelations, LAMBDA r : r.transformative))
      depths == [k \in DOMAIN revelations |-> revelations[k].depth]
  IN  \/ transformativeCount >= 2
      \/ /\ revelations # << >>
         /\ FracGT(FracDiv(SumFracs(depths, 1, Len(depths)),
                           Frac(Len(depths), 1)),
                   Frac(95, 100))

\* no value (null)
Null == <<"null">>

\* the loop of divingSession with the depth bound taken one too large
RECURSIVE DivingLevelsOneMore(_, _, _, _)
DivingLevelsOneMore(currentThought, currentLevel, questionsPerLevel, maxDepth) ==
  IF ~(currentLevel < maxDepth + 1) THEN << >>
  ELSE LET questions == generateDepthQuestions(currentThought, currentLevel,
                                               questionsPerLevel)
           revelations == findRevelations(currentThought, questions)
           nextThought == IF Len(revelations) > 0 /\ currentLevel < maxDepth
                          THEN synthesizeNextThought(revelations)
                          ELSE Null
           level == [depth |-> currentLevel + 1, thought |-> currentThought,
                     questions |-> questions, revelations |-> revelations,
                     nextThought |-> nextThought]
       IN  IF hasReachedCore(revelations) \/ nextThought = Null
           THEN <<level>>
           ELSE <<level>> \o DivingLevelsOneMore(nextThought, currentLevel + 1,
                                                 questionsPerLevel, maxDepth)

\* One pass of the loop of divingSession at currentLevel, and the passes
\* after it: the loop ends when currentLevel reaches maxDepth, when the core
\* is reached or when the level has no next thought.
RECURSIVE DivingLevels(_, _, _, _)
DivingLevels(currentThought, currentLevel, questionsPerLevel, maxDepth) ==
  IF ~(currentLevel < maxDepth) THEN << >>
  ELSE LET questions == generateDepthQuestions(currentThought, currentLevel,
                                               questionsPerLevel)
           revelations == findRevelations(currentThought, questions)
           nextThought == IF Len(revelations) > 0 /\ currentLevel < maxDepth - 1
                          THEN synthesizeNextThought(revelations)
                          ELSE Null
           level == [depth |-> currentLevel + 1, thought |-> currentThought,
                     questions |-> questions, revelations |-> revelations,
                     nextThought |-> nextThought]
       IN  IF hasReachedCore(revelations) \/ nextThought = Null
           THEN <<level>>
           ELSE <<level>> \o DivingLevels(nextThought, currentLevel + 1,
                                          questionsPerLevel, maxDepth)

\* the mean depth of the revelations of a level, 0 for none
LevelDepth(level) ==
  LET depths == [k \in DOMAIN level.revelations |-> level.revelations[k].depth]
  IN  FracDiv(SumFracs(depths, 1, Len(depths)),
              Frac(IF Len(depths) = 0 THEN 1 ELSE Len(depths), 1))

\* DepthAnalyzer.calculateSessionDepth: the mean of the level depths, the
\* k-th level weighing k
calculateSessionDepth(levels) ==
  IF Len(levels) = 0 THEN Zero
  ELSE LET weighted == [k \in DOMAIN levels |->
                          FracMul(LevelDepth(levels[k]), Frac(k, 1))]
       IN  FracDiv(SumFracs(weighted, 1, Len(weighted)),
                   Frac((Len(levels) * (Len(levels) + 1)) \div 2, 1))

\* DepthAnalyzer.extractSessionInsights: the transformative revelations,
\* level by level
RECURSIVE extractSessionInsights(_, _)
extractSessionInsights(levels, index) ==
  IF index > Len(levels) THEN << >>
  ELSE LET found == SelectSeq(levels[index].revelations,
                              LAMBDA r : r.transformative)
       IN  [k \in DOMAIN found |->
              [level |-> index, insight |-> found[k].revelation,
               depth |-> found[k].depth, question |-> found[k].question]]
           \o extractSessionInsights(levels, index + 1)

\* DepthAnalyzer.identifyTransformationType
identifyTransformationType(fromThought, toThought) ==
  IF Includes(toThought, tOpposite) THEN "inversion"
  ELSE IF Includes(toThought, tEssence) THEN "distillation"
  ELSE IF Includes(toThought, tShadow) THEN "shadow-integration"
  ELSE IF Includes(toThought, tLight) THEN "illumination"
  ELSE "evolution"

\* DepthAnalyzer.traceThoughtTransformation: a transformation for every
\* level whose thought differs from that of the level before
traceThoughtTransformation(levels) ==
  LET changed == SelectSeq([i \in 1..(Len(levels) - 1) |-> i],
                           LAMBDA i : levels[i + 1].thought # levels[i].thought)
  IN  [k \in DOMAIN changed |->
         [from |-> levels[changed[k]].thought,
          to |-> levels[changed[k] + 1].thought,
          level |-> changed[k],
          type |-> identifyTransformationType(levels[changed[k]].thought,
                                              levels[changed[k] + 1].thought)]]

\* DepthAnalyzer.generateSessionId: `depth-${Date.now()}-${random}`
generateSessionId(now, draw) == <<"depth", now, draw>>

\* DepthAnalyzer.divingSession: the levels are explored, the session is
\* summed up, one entry is pushed on the diving history and the session is
\* returned.
DivingSession(thought, questionsPerLevel, maxDepth) ==
  /\ Len(divingHistory) < MaxSessions
  /\ \E now \in Now, draw \in IdDraws :
       LET levels == DivingLevels(thought, 0, questionsPerLevel, maxDepth)
           finalDepth == calculateSessionDepth(levels)
           session == [originalThought |-> thought,
                       startTime |-> Date(now),
                       levels |-> levels,
                       finalDepth |-> finalDepth,
                       insights |-> extractSessionInsights(levels, 1),
                       transformations |-> traceThoughtTransformation(levels)]
       IN  /\ clock' = now
           /\ divingHistory' =
                Append(divingHistory,
                       [id |-> generateSessionId(now, draw),
                        timestamp |-> Date(now),
                        originalThought |-> thought,
                        finalDepth |-> finalDepth])
           /\ last' = Returned("divingSession",
                               <<thought, questionsPerLevel, maxDepth>>, session)
  /\ UNCHANGED trkVars
  /\ UNCHANGED <<dbVars, memVars, detVars, srvVars, pending>>

\* the inputs of divingSession explored: no question, fewer than the
\* default, the default and all five of a level, from no depth to MaxDepth
QuestionCounts == {0, 2, 3, 5}
MaxDepths == 0..MaxDepth

NextDiving ==
  \E thought \in {tGrow}, questionsPerLevel \in QuestionCounts,
     maxDepth \in MaxDepths :
    DivingSession(thought, questionsPerLevel, maxDepth)

SpecDiving == Init /\ [][NextDiving]_vars

PatternShape(p) ==
  [type |-> p.type, name |-> p.name, strength |-> p.strength,
   trajectory |-> p.trajectory, depth |-> p.depth]

\* C26: discoverPatterns is deterministic: a run with the same pattern types
\* and threshold as the run before it, nothing else having happened in
\* between, returns the same patterns with the same strengths, trajectories
\* and depths
C26_DiscoverPatternsDeterministic ==
  [][(/\ last.op = "discoverPatterns"
      /\ last'.op = "discoverPatterns"
      /\ last'.args = last.args) =>
       [k \in DOMAIN last'.value.patterns |->
          PatternShape(last'.value.patterns[k])]
       = [k \in DOMAIN last.value.patterns |->
            PatternShape(last.value.patterns[k])]]_vars

(***************************************************************************)
(* reflectThought of the SQLite engine from one await to the next.  Every  *)
(* statement of the call that is awaited is a step; between two steps of   *)
(* a call the steps of another call may run.                               *)
(***************************************************************************)
\* the call at position c of pending, changed
Proceed(c, call) == [pending EXCEPT ![c] = call]

\* await this.db.run('INSERT ...'): the row is inserted and the call holds
\* its id (result.lastID)
BeginReflect(thought, includeEvolution) ==
  /\ Len(dbReflections) < MaxThoughts
  /\ \E now \in Now :
       /\ clock' = now
       /\ dbReflections' = InsertReflection(dbReflections, thought, "deep", now)
       /\ pending' = Append(pending,
            [thought |-> thought, includeEvolution |-> includeEvolution,
             thoughtId |-> Len(dbReflections) + 1, at |-> "findReflections",
             reflections |-> << >>, newStage |-> 0, created |-> 0])
  /\ UNCHANGED <<dbConnections, memVars, last>>
  /\ UNCHANGED <<detVars, srvVars, trkVars, divingHistory>>

\* await this.findReflections(thought, depth): the query runs on the table
\* as it is now
AwaitFindReflections(c) ==
  /\ c \in DOMAIN pending
  /\ pending[c].at = "findReflections"
  /\ \E found \in findReflections(dbReflections, pending[c].thought) :
       pending' = Proceed(c,
         [pending[c] EXCEPT
            !.reflections = [k \in DOMAIN found |->
                               Reflected(dbReflections, pending[c].thought,
                                         found[k])],
            !.at = IF pending[c].includeEvolution
                   THEN "trackEvolution" ELSE "createConnection"])
  /\ UNCHANGED <<dbVars, memVars, clock, last>>
  /\ UNCHANGED <<detVars, srvVars, trkVars, divingHistory>>

\* trackEvolution up to its UPDATE: the queries for the ancestors, taken as
\* one step, give the new stage
AwaitAncestors(c) ==
  /\ c \in DOMAIN pending
  /\ pending[c].at = "trackEvolution"
  /\ pending' = Proceed(c,
       [pending[c] EXCEPT
          !.newStage = newStage(dbReflections, pending[c].thought,
                                pending[c].thoughtId),
          !.at = "updateStage"])
  /\ UNCHANGED <<dbVars, memVars, clock, last>>
  /\ UNCHANGED <<detVars, srvVars, trkVars, divingHistory>>

\* await this.db.run('UPDATE reflections SET evolution_stage = ? ...')
AwaitUpdateStage(c) ==
  /\ c \in DOMAIN pending
  /\ pending[c].at = "updateStage"
  /\ dbReflections' = UpdateStage(dbReflections, pending[c].newStage,
                                  pending[c].thoughtId)
  /\ pending' = Proceed(c, [pending[c] EXCEPT !.at = "createConnection"])
  /\ UNCHANGED <<dbConnections, memVars, clock, last>>
  /\ UNCHANGED <<detVars, srvVars, trkVars, divingHistory>>

\* await this.createConnection(thoughtId, reflection.id, 'reflection',
\* reflection.similarity) for the next reflection of the loop
AwaitCreateConnection(c) ==
  /\ c \in DOMAIN pending
  /\ pending[c].at = "createConnection"
  /\ pending[c].created < Len(pending[c].reflections)
  /\ LET reflection == pending[c].reflections[pending[c].created + 1]
     IN  dbConnections' =
           createConnection(dbConnections, pending[c].thoughtId, reflection.id,
                            "reflection", reflection.similarity, clock)
  /\ pending' = Proceed(c, [pending[c] EXCEPT !.created = @ + 1])
  /\ UNCHANGED <<dbReflections, memVars, clock, last>>
  /\ UNCHANGED <<detVars, srvVars, trkVars, divingHistory>>

\* the loop is over: reflectThought returns
ReturnReflect(c) ==
  /\ c \in DOMAIN pending
  /\ pending[c].at = "createConnection"
  /\ pending[c].created = Len(pending[c].reflections)
  /\ pending' = Proceed(c, [pending[c] EXCEPT !.at = "returned"])
  /\ last' = Returned("reflectThought", <<pending[c].thought, "deep">>,
       [thoughtId |-> pending[c].thoughtId,
        deep_reflections |-> pending[c].reflections,
        tracked |-> pending[c].includeEvolution,
        stage |-> pending[c].newStage,
        growth_detected |-> pending[c].newStage > 1])
  /\ UNCHANGED <<dbVars, memVars, clock>>
  /\ UNCHANGED <<detVars, srvVars, trkVars, divingHistory>>

\* the thoughts of the interleaved calls
InterleavedTexts == {tGrow, tWantGrow, tWantChange}

NextInterleaved ==
  \/ \E thought \in InterleavedTexts, includeEvolution \in BOOLEAN :
       BeginReflect(thought, includeEvolution)
  \/ \E c \in 1..MaxThoughts : AwaitFindReflections(c)
  \/ \E c \in 1..MaxThoughts : AwaitAncestors(c)
  \/ \E c \in 1..MaxThoughts : AwaitUpdateStage(c)
  \/ \E c \in 1..MaxThoughts : AwaitCreateConnection(c)
  \/ \E c \in 1..MaxThoughts : ReturnReflect(c)

SpecInterleaved == Init /\ [][NextInterleaved]_vars

\* C27: no connection has source_id equal to target_id, and every
\* reflection edge goes from a thought to a thought of strictly smaller id,
\* also when reflectThought calls interleave at their awaits
C27_EdgesPointBack ==
  \A k \in DOMAIN dbConnections :
    /\ dbConnections[k].source_id # dbConnections[k].target_id
    /\ dbConnections[k].connection_type = "reflection" =>
         dbConnections[k].target_id < dbConnections[k].source_id

\* The SQLite engine ingesting one thought after the other: texts that
\* share a concept, a text all of wildcards, and a thought that fails.
NextStages ==
  \E thought \in {tGrow, tGrowing, tWantGrow, tBlank, Undefined},
     includeEvolution \in BOOLEAN :
    ReflectThoughtSql(thought, "deep", includeEvolution)

SpecStages == Init /\ [][NextStages]_vars

\* C28: after reflectThought calls that run one after the other, every
\* thought has a stage of at least 1, the n-th thought a stage of at most n,
\* and a thought ingested with evolution tracking has a stage strictly
\* greater than that of every earlier thought whose text contains one of its
\* extracted concepts; the stage of an earlier thought is left as it was
C28_StagesGrowAlongConcepts ==
  [][(last'.op = "reflectThought" /\ last'.status = "ok") =>
       /\ \A n \in DOMAIN dbReflections' :
            /\ dbReflections'[n].evolution_stage >= 1
            /\ dbReflections'[n].evolution_stage <= n
       /\ \A n \in DOMAIN dbReflections :
            dbReflections'[n].evolution_stage = dbReflections[n].evolution_stage
       /\ last'.value.tracked =>
            LET id == last'.value.thoughtId
                extracted == extractConcepts(dbReflections'[id].thought)
            IN  \A n \in 1..(id - 1), k \in DOMAIN extracted :
                  Includes(dbReflections'[n].thought, extracted[k]) =>
                    dbReflections'[id].evolution_stage
                      > dbReflections'[n].evolution_stage]_vars

\* the second thought, ingested with evolution tracking, has a concept that
\* the text of the first contains, and stage 2
C28_Witness ==
  /\ last.op = "reflectThought"
  /\ last.status = "ok"
  /\ last.value.tracked
  /\ last.value.thoughtId = 2
  /\ dbReflections[2].evolution_stage = 2
  /\ \E k \in DOMAIN extractConcepts(dbReflections[2].thought) :
       Includes(dbReflections[1].thought,
                extractConcepts(dbReflections[2].thought)[k])

\* The in-memory engine: a few thoughts ingested, ripples traced from a
\* stored thought, from its repetition and from a text never ingested.
NextMemRipples ==
  \/ \E thought \in {tGrow, tWantGrow, tGrowGrow, Undefined},
        includeEvolution \in BOOLEAN :
       ReflectThoughtMem(thought, "deep", includeEvolution)
  \/ \E originThought \in {tGrow, tWantGrow, tBlank},
        distance \in {0, 1, MaxDistance} :
       TraceRipplesMem(originThought, distance)

SpecMemRipples == Init /\ [][NextMemRipples]_vars

\* C29: in the in-memory engine reflectThought leaves the Map connections as
\* it is: after any calls the Map is empty, and traceRipples returns no
\* wave, no affected thought and a total impact of 0 for every origin
C29_MemoryGraphStaysEmpty ==
  /\ connections = << >>
  /\ (last.op = "traceRipples" /\ last.status = "ok") =>
       /\ last.value.waves = << >>
       /\ last.value.affectedThoughts = << >>
       /\ last.value.totalImpact = Zero

\* ripples traced to a distance from a thought that was ingested after a
\* thought it mirrors
C29_Witness ==
  /\ last.op = "traceRipples"
  /\ last.args[2] >= 1
  /\ Len(reflections) = 2
  /\ \E k \in DOMAIN reflections :
       /\ reflections[k].id = generateHash(last.args[1])
       /\ reflections[k].mirrors # << >>

====
